---- MODULE Spec2Model ----
(***************************************************************************)
(* Model of the HaloTrackerBot match-synchronization engine:               *)
(*   utils/scraper.py      the remote client (list, stats, asset calls)    *)
(*   utils/match_cache.py  the SQLite store                                *)
(*   cogs/halo_watcher.py  the sync engine, the polling task, the manual   *)
(*                         refresh command and the presence monitor        *)
(*                                                                         *)
(* Scheduling.  The bot runs on one asyncio event loop.  The HTTP calls of *)
(* scraper.py use the blocking `requests` library and the store calls use  *)
(* blocking sqlite3, so a coroutine keeps the loop from its resumption up  *)
(* to its next real await (a Discord send, or asyncio.sleep).  A runner    *)
(* whose pc is "created", "list", "stats" or "assets" holds the loop: no   *)
(* other handler runs then, but the remote side may still change between   *)
(* two of its blocking calls.                                              *)
(***************************************************************************)
EXTENDS Integers, Sequences, FiniteSets, TLC

\* ------------------------------------------------------------------ bounds
\* Number of matches the remote side ever knows (match IDs 1..MaxMatches).
MaxMatches == 2
\* get_new_matches on its own: the longest page and the latest start time.
MaxPage == 4
MaxTime == 4
\* get_recent_match_data on its own: the most matches the store holds.
MaxStored == 4
\* asset_fetches counts the fetches of one asset key up to this number.
MaxFetches == 2
\* save_match_data on its own: the number of calls.
MaxSaves == 3

\* ------------------------------------------------------- program constants
\* get_match_list(token, count=5) in get_new_matches.
PageCount == 5
\* The "" passed for old_match_id when the store is empty; match IDs are
\* modelled as positive naturals, the empty string as the non-ID 0.
EmptyId == 0
\* timedelta(hours=2) of get_recent_match_data; times are in minutes.
SessionGap == 120
\* get_recent_match_data(count=10) of handle_halo_stopped.
StopReportCount == 10
\* def get_recent_match_data(count=10, session_only=False).
DefaultCount == 10
\* report: `if len(recent_matches_raw) < 3`.
MinSession == 3
\* report: get_recent_match_data(count=20).
ReportCount == 20

MatchIds == 1..MaxMatches
Runners == {"poll", "manual"}

\* config.USER_ID, and the members of the guild whose presence the bot sees:
\* the configured user and somebody else.
USER_ID == "configured"
Users == {USER_ID, "other"}

\* Python's None / a value, as a sequence of length 0 or 1.
None == <<>>
Some(x) == <<x>>

VARIABLES
    \* ---- remote side (Halo Waypoint)
    api_status,    \* "ok" | "unauthorized" (HTTP 401) | "unavailable" (other failure)
    page_top,      \* newest match the list endpoint currently reports (0: none)
    stats_ready,   \* matches whose skill response carries RankRecap
    \* ---- store (matches_cache.db), each table in rowid order
    matches, stats, team_mmrs, maps, Modes,
    \* ---- HaloWatcher
    was_playing,   \* self.was_playing
    scraper_task,  \* self.scraper_task: "None" | "pending" | "done"
    live_tasks,    \* check_new_games_loop tasks created and neither ended nor cancelled
    booted,        \* on_ready has run
    report_rows,   \* recent_matches of the latest handle_halo_stopped still sending charts
    \* ---- the two coroutines that run check_for_new_matches
    pc,            \* position of each runner
    db_latest,     \* local db_latest_match as read at the start of the run
    delta,         \* local new_matches
    idx,           \* position of the for loop in new_matches (0: not in the loop)
    mode_data,     \* local mode_data of _process_new_match, while the summary is sent
    map_data,      \* local map_data of _process_new_match
    \* ---- notification sink (the user's DM channel)
    sent,          \* messages delivered at least once
    resent,        \* messages delivered more than once
    \* ---- history
    last_fetch,    \* runner -> how the last get_match_stats / save of its run ended
    quiet,         \* runner -> its current run saw no remote change, no fault, no other run
    armed,         \* a quiet run has ended and the remote side is unchanged since it began
    snap,          \* the tables as that run left them
    asset_fetches, \* asset key -> remote fetches that returned the asset
    refetched,     \* asset keys fetched remotely while their row was in the cache
    \* ---- get_new_matches called on its own (SpecDelta)
    call_pc,       \* "off" | "call" | "done"
    call_status,   \* how the list call is answered
    call_page,     \* the Results of the list response
    call_old,      \* old_match_id
    call_result,   \* the list get_new_matches returned
    \* ---- get_recent_match_data called on its own (SpecRecent)
    rec_pc,        \* "off" | "call" | "done"
    rec_session_only,  \* the argument session_only
    rec_count,     \* the argument count
    rec_result,    \* the list get_recent_match_data returned
    \* ---- save_match_data called on its own (SpecSave)
    save_log,      \* <<match ID, TeamMmrs>> of the saves that committed, oldest first
    \* ---- the report command on its own (SpecReport)
    rep_pc,        \* "off" | position of the command | "done" | "raised"
    rep_rows,      \* local recent_matches_raw
    rep_chart,     \* which of the three charts is being sent (0: none)
    rep_files,     \* chart files that exist in PLOT_DIR
    rep_log,       \* what the command did so far, oldest first
    \* ---- presence events on their own (SpecPresence)
    presence_log,  \* <<after.id, playing>> of the events handled, oldest first
    \* ---- the polling loop kept running (SpecLive)
    seen_new       \* matches a polled page showed as newer than the latest stored

remoteVars == <<api_status, page_top, stats_ready>>
storeVars == <<matches, stats, team_mmrs, maps, Modes>>
cogVars == <<was_playing, scraper_task, live_tasks>>
bootVars == <<booted, report_rows>>
runVars == <<pc, db_latest, delta, idx, mode_data, map_data>>
histVars == <<last_fetch, quiet, armed, snap>>
sinkVars == <<sent, resent>>
callVars == <<call_pc, call_status, call_page, call_old, call_result>>
recVars == <<rec_pc, rec_session_only, rec_count, rec_result>>
assetHist == <<asset_fetches, refetched>>
repVars == <<rep_pc, rep_rows, rep_chart, rep_files, rep_log>>
auxVars == <<assetHist, save_log, repVars, presence_log, seen_new>>
vars == <<remoteVars, storeVars, cogVars, bootVars, runVars, sinkVars, histVars,
          callVars, recVars, auxVars>>

\* ------------------------------------------------------------- remote data
\* A match of the list response.  The remote never changes a recorded match;
\* start times grow with the match ID (one player plays one match at a time).
\* Times are minutes: the second match starts two and a half hours after
\* the first, the later ones follow half an hour apart.
StartTimeOf(id) == IF id = 1 THEN 0 ELSE 120 + 30 * (id - 1)
\* MatchInfo.MapVariant and MatchInfo.UgcGameVariant: an asset ID and a version.
\* Matches 1 and 2 share their map; the later matches share their mode.
MapOf(id) == [AssetId |-> 1, VersionId |-> IF id <= 2 THEN 1 ELSE 2]
ModeOf(id) == [AssetId |-> 1, VersionId |-> IF id <= 1 THEN 1 ELSE 2]
RemoteMatch(id) ==
    [MatchId |-> id, StartTime |-> StartTimeOf(id),
     MapVariant |-> MapOf(id), UgcGameVariant |-> ModeOf(id)]

\* The skill response of a match once computed: Value[0].Result with
\* RankRecap and TeamMmrs (team ID -> rating, in the order of the response).
TeamMmrsOf(id) == <<<<0, 10 * id>>, <<1, 10 * id + 1>>>>
RemoteStats(id) ==
    [MatchId |-> id, RankRecap |-> 100 + id, TeamMmr |-> 10 * id,
     TeamMmrs |-> TeamMmrsOf(id)]

\* Assets the discovery endpoint knows; every other lookup is a 404.
RemoteAssets ==
    {<<"maps", [AssetId |-> 1, VersionId |-> 1]>>,
     <<"maps", [AssetId |-> 1, VersionId |-> 2]>>,
     <<"Modes", [AssetId |-> 1, VersionId |-> 1]>>}
RemoteAsset(type, ref) ==
    [PublicName |-> <<type, ref.AssetId, ref.VersionId>>, Description |-> "text"]
\* The asset keys (type, asset ID, version ID) the matches refer to.
AssetKeys ==
    {<<"maps", MapOf(id)>> : id \in MatchIds} \cup {<<"Modes", ModeOf(id)>> : id \in MatchIds}

\* The list endpoint answers the PageCount most recent matches it knows,
\* most recent first.
RECURSIVE PageFrom(_, _)
PageFrom(top, n) ==
    IF top = 0 \/ n = 0 THEN <<>>
    ELSE <<RemoteMatch(top)>> \o PageFrom(top - 1, n - 1)
Page == PageFrom(page_top, PageCount)

\* ------------------------------------------------ remote client (scraper.py)
\* halo_request raising InvalidTokenError on every failure, not on 401 only.
HaloRequestRaisesOnAnyFailure(status, body) ==
    IF status = "ok" THEN [kind |-> "json", body |-> Some(body)]
    ELSE [kind |-> "raise", body |-> None]

\* halo_request: the JSON of the response, None on a failure that is not a
\* 401, InvalidTokenError raised on a 401.
halo_request(status, body) ==
    CASE status = "ok" -> [kind |-> "json", body |-> Some(body)]
      [] status = "unauthorized" -> [kind |-> "raise", body |-> None]
      [] OTHER -> [kind |-> "none", body |-> None]

\* get_match_list: the list response {"Results": [...]}.
get_match_list(status, results) == halo_request(status, results)

\* NewerThan with >= for >: the known match and its equals stay in the delta.
NotOlderThan(ms, old_start_time) ==
    LET Newer(m) == m.StartTime >= old_start_time IN SelectSeq(ms, Newer)

\* The list comprehension [m for m in matches if m.StartTime > old_start_time].
NewerThan(ms, old_start_time) ==
    LET Newer(m) == m.StartTime > old_start_time IN SelectSeq(ms, Newer)

\* get_new_matches without the fallback for a known match: nothing when a
\* given old match is not in the page.
GetNewMatchesNoFallback(old_match_id, response) ==
    IF response.kind # "json" THEN <<>>
    ELSE LET ms == response.body[1]
             match_ids == {ms[i].MatchId : i \in DOMAIN ms}
         IN IF old_match_id \in match_ids
            THEN NewerThan(ms, ms[CHOOSE i \in DOMAIN ms :
                                    ms[i].MatchId = old_match_id].StartTime)
            ELSE IF old_match_id = EmptyId THEN ms ELSE <<>>

\* get_new_matches that returns its list oldest first, the reverse of the
\* order of the page.
GetNewMatchesReversed(old_match_id, response) ==
    LET ms == IF response.kind # "json" THEN <<>> ELSE response.body[1]
        match_ids == {ms[i].MatchId : i \in DOMAIN ms}
        new_matches ==
            IF old_match_id \in match_ids
            THEN LET old_match ==
                         ms[CHOOSE i \in DOMAIN ms :
                               /\ ms[i].MatchId = old_match_id
                               /\ \A j \in 1..(i - 1) : ms[j].MatchId # old_match_id]
                 IN NewerThan(ms, old_match.StartTime)
            ELSE ms
    IN  [i \in DOMAIN new_matches |-> new_matches[Len(new_matches) + 1 - i]]

\* get_new_matches after its call of get_match_list: [] on InvalidTokenError
\* and on a missing response; the matches newer than the old match when the
\* old match is in the page; the whole page otherwise.
get_new_matches(old_match_id, response) ==
    IF response.kind # "json" THEN <<>>
    ELSE LET ms == response.body[1]
             match_ids == {ms[i].MatchId : i \in DOMAIN ms}
         IN IF old_match_id \in match_ids
            THEN LET old_match ==
                         ms[CHOOSE i \in DOMAIN ms :
                               /\ ms[i].MatchId = old_match_id
                               /\ \A j \in 1..(i - 1) : ms[j].MatchId # old_match_id]
                 IN NewerThan(ms, old_match.StartTime)
            ELSE ms

\* get_match_stats without the test for RankRecap: any response is returned.
GetMatchStatsNoRecapTest(status, match_id, ready) ==
    LET response == halo_request(status, RemoteStats(match_id))
    IN  IF response.kind = "raise" THEN [kind |-> "raise", value |-> None]
        ELSE [kind |-> "return", value |-> response.body]

\* get_match_stats: InvalidTokenError passes through; the response when it
\* has Value[0].Result.RankRecap, None otherwise.
get_match_stats(status, match_id, ready) ==
    LET response == halo_request(status, RemoteStats(match_id))
    IN  IF response.kind = "raise" THEN [kind |-> "raise", value |-> None]
        ELSE IF response.kind = "json" /\ match_id \in ready
             THEN [kind |-> "return", value |-> response.body]
             ELSE [kind |-> "return", value |-> None]

\* fetch_ugc_asset: the asset's JSON, {} on any RequestException (a 401 and
\* a 404 included).
fetch_ugc_asset(status, asset_type, ref) ==
    IF status = "ok" /\ <<asset_type, ref>> \in RemoteAssets
    THEN Some(RemoteAsset(asset_type, ref))
    ELSE None

\* --------------------------------------------------- store (match_cache.py)
\* A table is the sequence of its rows in rowid order.  INSERT OR REPLACE
\* deletes the rows with the new row's primary key and appends the new row.
DeleteMatchId(table, match_id) ==
    LET Keep(r) == r.match_id # match_id IN SelectSeq(table, Keep)

\* The database as a transaction sees it.
Db == [matches |-> matches, stats |-> stats, team_mmrs |-> team_mmrs]

\* _save_match_info that writes no row.
SaveMatchInfoSkipped(db, match) == db

\* _save_match_info with a plain INSERT into a table without primary key.
SaveMatchInfoInsert(db, match) ==
    [db EXCEPT !.matches =
        Append(db.matches,
               [match_id |-> match.MatchId,
                start_time |-> match.StartTime,
                map_variant |-> match.MapVariant.AssetId,
                map_version |-> match.MapVariant.VersionId,
                ugc_variant |-> match.UgcGameVariant.AssetId])]

\* _save_match_info that empties the table before its insert.
SaveMatchInfoTruncates(db, match) ==
    [db EXCEPT !.matches =
        <<[match_id |-> match.MatchId,
           start_time |-> match.StartTime,
           map_variant |-> match.MapVariant.AssetId,
           map_version |-> match.MapVariant.VersionId,
           ugc_variant |-> match.UgcGameVariant.AssetId]>>]

\* _save_match_info: INSERT OR REPLACE INTO matches.
_save_match_info(db, match) ==
    [db EXCEPT !.matches =
        Append(DeleteMatchId(db.matches, match.MatchId),
               [match_id |-> match.MatchId,
                start_time |-> match.StartTime,
                map_variant |-> match.MapVariant.AssetId,
                map_version |-> match.MapVariant.VersionId,
                ugc_variant |-> match.UgcGameVariant.AssetId])]

\* _save_stats that writes no row.
SaveStatsSkipped(db, match_id, st) == db

\* _save_stats: INSERT OR REPLACE INTO stats.
_save_stats(db, match_id, st) ==
    [db EXCEPT !.stats =
        Append(DeleteMatchId(db.stats, match_id),
               [match_id |-> match_id, post_csr |-> st.RankRecap,
                team_mmr |-> st.TeamMmr])]

\* The DELETE FROM team_mmrs WHERE match_id = ? of _save_team_mmrs.
DeleteTeamMmrs(db, match_id) ==
    [db EXCEPT !.team_mmrs = DeleteMatchId(db.team_mmrs, match_id)]

\* The INSERT loop of _save_team_mmrs over TeamMmrs.items().
InsertTeamMmrs(db, match_id, st) ==
    [db EXCEPT !.team_mmrs =
        db.team_mmrs \o
        [i \in DOMAIN st.TeamMmrs |->
            [match_id |-> match_id, team_id |-> st.TeamMmrs[i][1],
             mmr |-> st.TeamMmrs[i][2]]]]

\* _save_team_mmrs without its DELETE: the rows of earlier saves stay.
SaveTeamMmrsNoDelete(db, match_id, st) == InsertTeamMmrs(db, match_id, st)

\* _save_team_mmrs: delete the match's rows, insert one row per team.
_save_team_mmrs(db, match_id, st) ==
    InsertTeamMmrs(DeleteTeamMmrs(db, match_id), match_id, st)

\* Where a statement of save_match_data can fail with an sqlite3 error.
SaveFaults == {"none", "info", "stats", "teams", "commit"}

\* The database a failed save_match_data leaves behind if nothing undoes the
\* statements that ran before the failure.
PartialSave(db, match, st, fault) ==
    LET d1 == _save_match_info(db, match)
        d2 == _save_stats(d1, match.MatchId, st)
        d3 == DeleteTeamMmrs(d2, match.MatchId)
        d4 == InsertTeamMmrs(d3, match.MatchId, st)
    IN  CASE fault = "info" -> db
          [] fault = "stats" -> d1
          [] fault = "teams" -> d3
          [] OTHER -> d4

\* save_match_data without the rollback of `with conn:`.
SaveNoRollback(db, match, st, fault) ==
    [db |-> PartialSave(db, match, st, fault), raised |-> fault # "none"]

\* save_match_data: the three writes in one transaction of `with
\* get_db_connection() as conn:`, committed at the end, rolled back when a
\* statement raises (the error then leaves save_match_data).
save_match_data(db, match, st, fault) ==
    IF fault = "none"
    THEN [db |-> _save_team_mmrs(
                    _save_stats(_save_match_info(db, match), match.MatchId, st),
                    match.MatchId, st),
          raised |-> FALSE]
    ELSE [db |-> db, raised |-> TRUE]

\* Get_Latest_Match without `if row:`: a dict also for an empty table.
GetLatestMatchAlwaysDict(table) ==
    IF table = <<>> THEN Some([MatchId |-> EmptyId, StartTime |-> 0])
    ELSE LET i == CHOOSE k \in DOMAIN table :
                    \A j \in DOMAIN table : table[j].start_time <= table[k].start_time
         IN Some([MatchId |-> table[i].match_id, StartTime |-> table[i].start_time])

\* Get_Latest_Match without ORDER BY: the row of the lowest rowid.
GetLatestMatchFirstRow(table) ==
    IF table = <<>> THEN None
    ELSE Some([MatchId |-> table[1].match_id, StartTime |-> table[1].start_time])

\* Get_Latest_Match: SELECT * FROM matches ORDER BY start_time DESC LIMIT 1;
\* SQLite's sorter is stable, so among equal start times the row of the
\* lowest rowid is returned.  None when the table is empty.
Get_Latest_Match(table) ==
    IF table = <<>> THEN None
    ELSE LET i == CHOOSE k \in DOMAIN table :
                    /\ \A j \in DOMAIN table : table[j].start_time <= table[k].start_time
                    /\ \A j \in 1..(k - 1) : table[j].start_time < table[k].start_time
         IN Some([MatchId |-> table[i].match_id, StartTime |-> table[i].start_time])

\* The rows of `FROM matches m JOIN stats s ON m.match_id = s.match_id`, in
\* the rowid order of matches.
JoinStats(db) ==
    LET HasStats(m) == \E j \in DOMAIN db.stats : db.stats[j].match_id = m.match_id
        ms == SelectSeq(db.matches, HasStats)
    IN [i \in DOMAIN ms |->
          LET st == db.stats[CHOOSE j \in DOMAIN db.stats :
                                 db.stats[j].match_id = ms[i].match_id]
          IN [match_id |-> ms[i].match_id, start_time |-> ms[i].start_time,
              post_csr |-> st.post_csr, team_mmr |-> st.team_mmr]]

\* ORDER BY m.start_time DESC: the latest row first; rows of equal start
\* time stay in rowid order.
RECURSIVE OrderByStartTimeDesc(_)
OrderByStartTimeDesc(rows) ==
    IF rows = <<>> THEN <<>>
    ELSE LET k == CHOOSE i \in DOMAIN rows :
                    /\ \A j \in DOMAIN rows : rows[j].start_time <= rows[i].start_time
                    /\ \A j \in 1..(i - 1) : rows[j].start_time < rows[i].start_time
             rest == [i \in 1..(Len(rows) - 1) |->
                         IF i < k THEN rows[i] ELSE rows[i + 1]]
         IN <<rows[k]>> \o OrderByStartTimeDesc(rest)

\* The for loop of the session branch without its break.
RECURSIVE SessionWalkNoBreak(_, _, _)
SessionWalkNoBreak(all_matches, i, last_match_time) ==
    IF i > Len(all_matches) THEN <<>>
    ELSE <<all_matches[i]>> \o
         SessionWalkNoBreak(all_matches, i + 1, all_matches[i].start_time)

\* The for loop of the session branch with >= for >.
RECURSIVE SessionWalkBreaksAtGap(_, _, _)
SessionWalkBreaksAtGap(all_matches, i, last_match_time) ==
    IF i > Len(all_matches) THEN <<>>
    ELSE IF last_match_time - all_matches[i].start_time >= SessionGap THEN <<>>
    ELSE <<all_matches[i]>> \o
         SessionWalkBreaksAtGap(all_matches, i + 1, all_matches[i].start_time)

\* The for loop of the session branch from row i on: rows are appended until
\* one starts more than 2 hours before the row appended last.
RECURSIVE SessionWalk(_, _, _)
SessionWalk(all_matches, i, last_match_time) ==
    IF i > Len(all_matches) THEN <<>>
    ELSE IF last_match_time - all_matches[i].start_time > SessionGap THEN <<>>
    ELSE <<all_matches[i]>> \o
         SessionWalk(all_matches, i + 1, all_matches[i].start_time)

\* session_matches[::-1]
Reversed(rows) == [i \in DOMAIN rows |-> rows[Len(rows) + 1 - i]]

\* get_recent_match_data(count, session_only): the session of the latest
\* match, reversed, when session_only; otherwise the first `count` rows of
\* the query as the query returns them.
get_recent_match_data(db, count, session_only) ==
    LET all_matches == OrderByStartTimeDesc(JoinStats(db))
    IN  IF session_only
        THEN IF all_matches = <<>> THEN <<>>
             ELSE Reversed(SessionWalk(all_matches, 1, all_matches[1].start_time))
        ELSE SubSeq(all_matches, 1,
                    IF count < Len(all_matches) THEN count ELSE Len(all_matches))

\* get_asset_from_db: the cached row as {"name", "description"}, or None.
get_asset_from_db(table, ref) ==
    IF \E i \in DOMAIN table :
          table[i].AssetId = ref.AssetId /\ table[i].VersionId = ref.VersionId
    THEN LET i == CHOOSE k \in DOMAIN table :
                    table[k].AssetId = ref.AssetId /\ table[k].VersionId = ref.VersionId
         IN Some([name |-> table[i].PublicName, description |-> table[i].Description])
    ELSE None

\* upsert_asset: INSERT OR REPLACE INTO maps / Modes.
upsert_asset(table, ref, public_name, description) ==
    LET Keep(r) == ~(r.AssetId = ref.AssetId /\ r.VersionId = ref.VersionId)
    IN Append(SelectSeq(table, Keep),
              [AssetId |-> ref.AssetId, VersionId |-> ref.VersionId,
               PublicName |-> public_name, Description |-> description])

\* _get_or_fetch_asset_data without the cache lookup: every call asks the
\* remote side.
GetOrFetchNoCacheLookup(table, status, asset_type, ref) ==
    LET fetched == fetch_ugc_asset(status, asset_type, ref)
    IN  IF fetched # None
        THEN [table |-> upsert_asset(table, ref, fetched[1].PublicName,
                                     fetched[1].Description),
              data |-> fetched, fetched |-> TRUE]
        ELSE [table |-> table, data |-> get_asset_from_db(table, ref),
              fetched |-> TRUE]

\* _get_or_fetch_asset_data that writes a row for an asset the remote lookup
\* did not find.
GetOrFetchCachesMiss(table, status, asset_type, ref) ==
    LET cached == get_asset_from_db(table, ref)
        fetched == fetch_ugc_asset(status, asset_type, ref)
    IN  IF cached # None THEN [table |-> table, data |-> cached, fetched |-> FALSE]
        ELSE IF fetched # None
             THEN [table |-> upsert_asset(table, ref, fetched[1].PublicName,
                                          fetched[1].Description),
                   data |-> fetched, fetched |-> TRUE]
             ELSE [table |-> upsert_asset(table, ref, None, None),
                   data |-> None, fetched |-> TRUE]

\* _get_or_fetch_asset_data: the cache row when there is one; otherwise the
\* remote lookup, written to the cache when it found the asset.  Gives the
\* table afterwards and the asset data handed to the summary.
_get_or_fetch_asset_data(table, status, asset_type, ref) ==
    LET cached == get_asset_from_db(table, ref)
        fetched == fetch_ugc_asset(status, asset_type, ref)
    IN  IF cached # None THEN [table |-> table, data |-> cached, fetched |-> FALSE]
        ELSE IF fetched # None
             THEN [table |-> upsert_asset(table, ref, fetched[1].PublicName,
                                          fetched[1].Description),
                   data |-> fetched, fetched |-> TRUE]
             ELSE [table |-> table, data |-> None, fetched |-> TRUE]

\* format_match_summary, its map line and its mode line: the name of the
\* asset data (dict.get('name', 'Unknown')), and for no asset data the asset
\* ID, with the version for a map.  Names are tuples in this model, the
\* default 'Unknown' is the tuple <<"Unknown">>.
format_match_summary(match, md, mp) ==
    LET NameOf(d) == IF "name" \in DOMAIN d THEN d.name ELSE <<"Unknown">>
    IN  [MatchId |-> match.MatchId,
         Map |-> IF mp # None THEN <<"name", NameOf(mp[1])>>
                 ELSE <<"id", match.MapVariant.AssetId, match.MapVariant.VersionId>>,
         Mode |-> IF md # None THEN <<"name", NameOf(md[1])>>
                  ELSE <<"id", match.UgcGameVariant.AssetId>>]

\* ------------------------------------------------------------ initial state
\* The messages the user can get by DM: one summary per match, and the
\* instructions of _handle_invalid_token.
Summary(match_id) == [kind |-> "summary", MatchId |-> match_id]
TokenExpired == [kind |-> "token_expired", MatchId |-> EmptyId]
Messages == {Summary(id) : id \in MatchIds} \cup {TokenExpired}

\* What the claim of idempotence compares: the rows and the row count of
\* every table.
RowsOf(table) == [rows |-> {table[i] : i \in DOMAIN table}, count |-> Len(table)]
Tables ==
    [matches |-> RowsOf(matches), stats |-> RowsOf(stats),
     team_mmrs |-> RowsOf(team_mmrs), maps |-> RowsOf(maps), Modes |-> RowsOf(Modes)]

\* HaloWatcher.__init__, nothing played yet.
InitCog ==
    /\ api_status = "ok"
    /\ page_top = 0
    /\ stats_ready = {}
    /\ was_playing = FALSE
    /\ scraper_task = "None"
    /\ live_tasks = 0
    /\ booted = FALSE
    /\ report_rows = <<>>
    /\ pc = [r \in Runners |-> IF r = "poll" THEN "none" ELSE "idle"]
    /\ db_latest = [r \in Runners |-> None]
    /\ delta = [r \in Runners |-> <<>>]
    /\ idx = [r \in Runners |-> 0]
    /\ mode_data = [r \in Runners |-> None]
    /\ map_data = [r \in Runners |-> None]
    /\ asset_fetches = [k \in AssetKeys |-> 0]
    /\ refetched = {}
    /\ sent = {}
    /\ resent = {}
    /\ last_fetch = [r \in Runners |-> "-"]
    /\ quiet = [r \in Runners |-> FALSE]
    /\ armed = FALSE
    /\ snap = <<>>

\* HaloWatcher.__init__ and an initialised empty database.
InitBot ==
    /\ InitCog
    /\ matches = <<>> /\ stats = <<>> /\ team_mmrs = <<>>
    /\ maps = <<>> /\ Modes = <<>>

CallOff ==
    /\ call_pc = "off"
    /\ call_status = "ok"
    /\ call_page = <<>>
    /\ call_old = EmptyId
    /\ call_result = <<>>
RecOff ==
    /\ rec_pc = "off"
    /\ rec_session_only = FALSE
    /\ rec_count = 0
    /\ rec_result = <<>>

\* save_match_data and the report command are not called on their own.
SaveOff == save_log = <<>>
\* No presence event and no poll is logged.
LogOff == presence_log = <<>> /\ seen_new = {}
RepOff ==
    /\ rep_pc = "off"
    /\ rep_rows = <<>>
    /\ rep_chart = 0
    /\ rep_files = {}
    /\ rep_log = <<>>
    /\ LogOff

Init == InitBot /\ CallOff /\ RecOff /\ SaveOff /\ RepOff

\* ------------------------------------------------------------- remote side
\* Any change of the remote side ends the "unchanged remote" of idempotence.
Disturb ==
    /\ quiet' = [r \in Runners |-> FALSE]
    /\ armed' = FALSE
    /\ snap' = <<>>

\* The token expires or is accepted again, the service fails or recovers.
ApiStatusChanges(s) ==
    /\ UNCHANGED <<callVars, recVars, bootVars, auxVars>>
    /\ s # api_status
    /\ api_status' = s
    /\ Disturb
    /\ UNCHANGED <<page_top, stats_ready, storeVars, cogVars, runVars, sinkVars,
                   last_fetch>>

\* The list endpoint reports another newest match: a match was played, or a
\* cache of the service answers an older list.
PageChanges(top) ==
    /\ UNCHANGED <<callVars, recVars, bootVars, auxVars>>
    /\ top # page_top
    /\ page_top' = top
    /\ Disturb
    /\ UNCHANGED <<api_status, stats_ready, storeVars, cogVars, runVars, sinkVars,
                   last_fetch>>

\* The skill service finishes computing the stats of a match.
StatsComputed(id) ==
    /\ UNCHANGED <<callVars, recVars, bootVars, auxVars>>
    /\ id \notin stats_ready
    /\ stats_ready' = stats_ready \cup {id}
    /\ Disturb
    /\ UNCHANGED <<api_status, page_top, storeVars, cogVars, runVars, sinkVars,
                   last_fetch>>

\* ------------------------------------------------------------ the event loop
\* A runner between a resumption and its next await keeps the event loop.
\* A task just created is in the loop's ready queue: it runs up to its first
\* await before the loop takes another event.
Holding(r) == pc[r] \in {"created", "list", "stats", "assets"}
LoopFree == \A r \in Runners : ~Holding(r)
\* The loop can resume runner r.
LoopFreeFor(r) == \A o \in Runners \ {r} : ~Holding(o)
\* Inside check_for_new_matches.
InRun(r) == pc[r] \in {"list", "stats", "assets", "summary"}
\* Where check_for_new_matches returns to: the task goes to
\* asyncio.sleep(60), the refresh command to ctx.send("Refresh complete.").
Rest(r) == IF r = "poll" THEN "sleep" ELSE "reply"

\* ------------------------------------------------- HaloWatcher: the task
\* start_scraper without its test of self.scraper_task.
StartScraperAlways ==
    /\ scraper_task' = "pending"
    /\ live_tasks' = live_tasks + 1
    /\ pc' = [pc EXCEPT !["poll"] = "created"]
    /\ db_latest' = [db_latest EXCEPT !["poll"] = None]
    /\ delta' = [delta EXCEPT !["poll"] = <<>>]
    /\ idx' = [idx EXCEPT !["poll"] = 0]
    /\ mode_data' = [mode_data EXCEPT !["poll"] = None]
    /\ map_data' = [map_data EXCEPT !["poll"] = None]

\* start_scraper: a new check_new_games_loop task unless one is pending.
start_scraper ==
    IF scraper_task = "None" \/ scraper_task = "done"
    THEN /\ scraper_task' = "pending"
         /\ live_tasks' = live_tasks + 1
         /\ pc' = [pc EXCEPT !["poll"] = "created"]
         /\ db_latest' = [db_latest EXCEPT !["poll"] = None]
         /\ delta' = [delta EXCEPT !["poll"] = <<>>]
         /\ idx' = [idx EXCEPT !["poll"] = 0]
         /\ mode_data' = [mode_data EXCEPT !["poll"] = None]
         /\ map_data' = [map_data EXCEPT !["poll"] = None]
    ELSE UNCHANGED <<scraper_task, live_tasks, runVars>>

\* stop_scraper without task.cancel(): the task is forgotten and runs on.
StopScraperForgetsOnly ==
    IF scraper_task = "pending"
    THEN /\ scraper_task' = "None"
         /\ UNCHANGED <<live_tasks, runVars>>
    ELSE UNCHANGED <<scraper_task, live_tasks, runVars>>

\* stop_scraper: cancel the pending task and forget it.  The cancelled task
\* is at an await (its sleep or a Discord call of the summary); it gets
\* CancelledError there, which no handler of the loop catches, and runs no
\* further statement.
stop_scraper ==
    IF scraper_task = "pending"
    THEN /\ scraper_task' = "None"
         /\ live_tasks' = live_tasks - 1
         /\ pc' = [pc EXCEPT !["poll"] = "none"]
         /\ db_latest' = [db_latest EXCEPT !["poll"] = None]
         /\ delta' = [delta EXCEPT !["poll"] = <<>>]
         /\ idx' = [idx EXCEPT !["poll"] = 0]
         /\ mode_data' = [mode_data EXCEPT !["poll"] = None]
         /\ map_data' = [map_data EXCEPT !["poll"] = None]
    ELSE UNCHANGED <<scraper_task, live_tasks, runVars>>

\* handle_halo_started: the flag, then start_scraper.
handle_halo_started ==
    /\ was_playing' = TRUE
    /\ start_scraper
    /\ quiet' = [quiet EXCEPT !["poll"] = FALSE]

\* handle_halo_stopped up to its first await: the flag, stop_scraper, then
\* recent_matches = get_recent_match_data(count=10).  With matches to chart
\* the handler goes on to its Discord calls, otherwise it ends.
handle_halo_stopped ==
    /\ was_playing' = FALSE
    /\ stop_scraper
    /\ quiet' = [quiet EXCEPT !["poll"] = FALSE]
    /\ report_rows' = get_recent_match_data(Db, StopReportCount, FALSE)

\* The rest of handle_halo_stopped: fetch_user, create_dm and the sends of
\* the three charts drawn from recent_matches.  The chart files are not
\* part of this model's sink, which records the match summaries.
SendReport ==
    /\ UNCHANGED <<callVars, recVars, booted, auxVars>>
    /\ LoopFree
    /\ report_rows # <<>>
    /\ report_rows' = <<>>
    /\ UNCHANGED <<remoteVars, storeVars, cogVars, runVars, sinkVars, histVars>>

\* on_ready that seeds the flag and starts no task.
OnReadyFlagOnly(found, is_playing_halo) ==
    /\ UNCHANGED <<callVars, recVars, report_rows, auxVars>>
    /\ LoopFree
    /\ ~booted
    /\ booted' = TRUE
    /\ was_playing' = (was_playing \/ (found /\ is_playing_halo))
    /\ UNCHANGED <<scraper_task, live_tasks, runVars, quiet>>
    /\ UNCHANGED <<remoteVars, storeVars, sinkVars, last_fetch, armed, snap>>

\* on_ready up to init_db: the member is fetched and, when the activities
\* read from it name the game, handle_halo_started runs; init_db creates the
\* tables that are missing and changes no row.  Nothing suspends between
\* start_scraper and init_db, so the new task first runs after init_db.  The
\* DMs on_ready sends afterwards carry no match and are not recorded.
on_ready(found, is_playing_halo) ==
    /\ UNCHANGED <<callVars, recVars, report_rows, auxVars>>
    /\ LoopFree
    /\ ~booted
    /\ booted' = TRUE
    /\ IF found /\ is_playing_halo
       THEN handle_halo_started
       ELSE UNCHANGED <<was_playing, scraper_task, live_tasks, runVars, quiet>>
    /\ UNCHANGED <<remoteVars, storeVars, sinkVars, last_fetch, armed, snap>>

\* on_presence_update that looks at the event only, not at was_playing.
OnPresenceUpdateNoEdge(after_id, is_playing_halo) ==
    /\ UNCHANGED <<callVars, recVars, booted, assetHist, save_log, repVars, seen_new>>
    /\ LoopFree
    /\ IF after_id # USER_ID
       THEN UNCHANGED <<was_playing, scraper_task, live_tasks, runVars, quiet,
                        report_rows>>
       ELSE IF is_playing_halo
            THEN /\ handle_halo_started
                 /\ UNCHANGED report_rows
            ELSE handle_halo_stopped
    /\ UNCHANGED <<remoteVars, storeVars, sinkVars, last_fetch, armed, snap>>

\* on_presence_update without its test of after.id.
OnPresenceUpdateAnyUser(after_id, is_playing_halo) ==
    /\ UNCHANGED <<callVars, recVars, booted, assetHist, save_log, repVars, seen_new>>
    /\ LoopFree
    /\ IF is_playing_halo /\ ~was_playing
       THEN /\ handle_halo_started
            /\ UNCHANGED report_rows
       ELSE IF ~is_playing_halo /\ was_playing
            THEN handle_halo_stopped
            ELSE UNCHANGED <<was_playing, scraper_task, live_tasks, runVars, quiet,
                             report_rows>>
    /\ UNCHANGED <<remoteVars, storeVars, sinkVars, last_fetch, armed, snap>>

\* on_presence_update: an event of another member returns at once; for the
\* configured user handle_halo_started on the edge to playing,
\* handle_halo_stopped on the edge to not playing.  The handler is awaited
\* by the event loop, so it runs when no runner holds the loop.
on_presence_update(after_id, is_playing_halo) ==
    /\ UNCHANGED <<callVars, recVars, booted, assetHist, save_log, repVars, seen_new>>
    /\ LoopFree
    /\ IF after_id # USER_ID
       THEN UNCHANGED <<was_playing, scraper_task, live_tasks, runVars, quiet,
                        report_rows>>
       ELSE IF is_playing_halo /\ ~was_playing
            THEN /\ handle_halo_started
                 /\ UNCHANGED report_rows
            ELSE IF ~is_playing_halo /\ was_playing
                 THEN handle_halo_stopped
                 ELSE UNCHANGED <<was_playing, scraper_task, live_tasks, runVars,
                                  quiet, report_rows>>
    /\ UNCHANGED <<remoteVars, storeVars, sinkVars, last_fetch, armed, snap>>

\* ------------------------------------- HaloWatcher: check_for_new_matches
\* The statements after the for loop, or after a false `if new_matches`:
\* check_for_new_matches returns.  The task goes to asyncio.sleep(60), the
\* refresh command to its send of "Refresh complete.".
Returns(r) ==
    /\ pc' = [pc EXCEPT ![r] = Rest(r)]
    /\ db_latest' = [db_latest EXCEPT ![r] = None]
    /\ delta' = [delta EXCEPT ![r] = <<>>]
    /\ idx' = [idx EXCEPT ![r] = 0]
    /\ mode_data' = [mode_data EXCEPT ![r] = None]
    /\ map_data' = [map_data EXCEPT ![r] = None]
    /\ last_fetch' = [last_fetch EXCEPT ![r] = "-"]
    /\ quiet' = [quiet EXCEPT ![r] = FALSE]
    /\ armed' = (armed \/ quiet[r])
    /\ snap' = IF quiet[r] THEN Tables ELSE snap
    /\ UNCHANGED <<scraper_task, live_tasks>>

\* An exception leaves check_for_new_matches.  In the task it leaves
\* check_new_games_loop too: the task is done, self.scraper_task still refers
\* to it.  In the refresh command it ends the command.
Raises(r) ==
    /\ pc' = [pc EXCEPT ![r] = IF r = "poll" THEN "none" ELSE "idle"]
    /\ db_latest' = [db_latest EXCEPT ![r] = None]
    /\ delta' = [delta EXCEPT ![r] = <<>>]
    /\ idx' = [idx EXCEPT ![r] = 0]
    /\ mode_data' = [mode_data EXCEPT ![r] = None]
    /\ map_data' = [map_data EXCEPT ![r] = None]
    /\ scraper_task' = IF r = "poll" THEN "done" ELSE scraper_task
    /\ live_tasks' = IF r = "poll" THEN live_tasks - 1 ELSE live_tasks

\* _process_new_match has returned: db_latest_match = match, and the for
\* loop goes to its next match, or ends.
NextMatch(r, fetch) ==
    IF idx[r] < Len(delta[r])
    THEN /\ idx' = [idx EXCEPT ![r] = idx[r] + 1]
         /\ mode_data' = [mode_data EXCEPT ![r] = None]
         /\ map_data' = [map_data EXCEPT ![r] = None]
         /\ last_fetch' = [last_fetch EXCEPT ![r] = fetch]
         /\ pc' = [pc EXCEPT ![r] = "stats"]
         /\ db_latest' = [db_latest EXCEPT ![r] = Some(delta[r][idx[r]])]
         /\ UNCHANGED <<delta, scraper_task, live_tasks, quiet, armed, snap>>
    ELSE Returns(r)

\* A run starts: the task wakes up (new, or after its sleep), or the user
\* sends !refresh.  db_latest_match = match_cache.Get_Latest_Match().
StartRun(r) ==
    /\ UNCHANGED <<callVars, recVars, bootVars, auxVars>>
    /\ LoopFreeFor(r)
    /\ \/ r = "poll" /\ pc[r] \in {"created", "sleep"}
       \/ r = "manual" /\ pc[r] = "idle"
    /\ pc' = [pc EXCEPT ![r] = "list"]
    /\ db_latest' = [db_latest EXCEPT ![r] = Get_Latest_Match(matches)]
    /\ delta' = [delta EXCEPT ![r] = <<>>]
    /\ idx' = [idx EXCEPT ![r] = 0]
    /\ mode_data' = [mode_data EXCEPT ![r] = None]
    /\ map_data' = [map_data EXCEPT ![r] = None]
    /\ last_fetch' = [last_fetch EXCEPT ![r] = "-"]
    /\ quiet' = [x \in Runners |-> x = r /\ \A o \in Runners \ {r} : ~InRun(o)]
    /\ UNCHANGED <<remoteVars, storeVars, cogVars, sinkVars, armed, snap>>

\* check_for_new_matches with a get_new_matches that lets the failure of the
\* list call through as an exception.
ListCallFailureRaises(r) ==
    /\ UNCHANGED <<callVars, recVars, bootVars, assetHist, save_log, repVars,
                   presence_log>>
    /\ pc[r] = "list"
    /\ LET old_match_id ==
               IF db_latest[r] # None THEN db_latest[r][1].MatchId ELSE EmptyId
           response == get_match_list(api_status, Page)
           new_matches == get_new_matches(old_match_id, response)
       IN  IF response.kind # "json"
           THEN /\ Raises(r)
                /\ UNCHANGED histVars
           ELSE IF new_matches # <<>>
           THEN /\ delta' = [delta EXCEPT ![r] = new_matches]
                /\ idx' = [idx EXCEPT ![r] = 1]
                /\ mode_data' = [mode_data EXCEPT ![r] = None]
                /\ map_data' = [map_data EXCEPT ![r] = None]
                /\ pc' = [pc EXCEPT ![r] = "stats"]
                /\ UNCHANGED <<db_latest, scraper_task, live_tasks, last_fetch,
                               quiet, armed, snap>>
           ELSE Returns(r)
    /\ UNCHANGED <<remoteVars, storeVars, was_playing, sinkVars>>

\* new_matches = scraper.get_new_matches(latest ID or "", token), then the
\* branch on it.  `new_matches is False` is never true: get_new_matches
\* returns lists only.
ListCall(r) ==
    /\ UNCHANGED <<callVars, recVars, bootVars, assetHist, save_log, repVars,
                   presence_log>>
    /\ pc[r] = "list"
    /\ LET old_match_id ==
               IF db_latest[r] # None THEN db_latest[r][1].MatchId ELSE EmptyId
           new_matches ==
               get_new_matches(old_match_id, get_match_list(api_status, Page))
       IN  IF new_matches # <<>>
           THEN /\ delta' = [delta EXCEPT ![r] = new_matches]
                /\ idx' = [idx EXCEPT ![r] = 1]
                /\ mode_data' = [mode_data EXCEPT ![r] = None]
                /\ map_data' = [map_data EXCEPT ![r] = None]
                /\ pc' = [pc EXCEPT ![r] = "stats"]
                /\ UNCHANGED <<db_latest, scraper_task, live_tasks, last_fetch,
                               quiet, armed, snap>>
           ELSE Returns(r)
    /\ UNCHANGED <<remoteVars, storeVars, was_playing, sinkVars>>

\* _process_new_match up to its first await: get_match_stats, and for ready
\* stats save_match_data.  `stats is False` is never true: get_match_stats
\* returns a dict or None, a 401 raises InvalidTokenError through it.
FetchStats(r, fault) ==
    /\ UNCHANGED <<callVars, recVars, bootVars, auxVars>>
    /\ pc[r] = "stats"
    /\ LET match == delta[r][idx[r]]
           res == get_match_stats(api_status, match.MatchId, stats_ready)
       IN  IF res.kind = "raise"
           THEN /\ fault = "none"
                /\ Raises(r)
                /\ last_fetch' = [last_fetch EXCEPT ![r] = "InvalidTokenError"]
                /\ UNCHANGED <<storeVars, quiet, armed, snap>>
           ELSE IF res.value = None
           THEN /\ fault = "none"
                /\ NextMatch(r, IF api_status = "ok" THEN "not_ready"
                                ELSE "unavailable")
                /\ UNCHANGED storeVars
           ELSE LET saved == save_match_data(Db, match, res.value[1], fault)
                IN  /\ matches' = saved.db.matches
                    /\ stats' = saved.db.stats
                    /\ team_mmrs' = saved.db.team_mmrs
                    /\ UNCHANGED <<maps, Modes>>
                    /\ last_fetch' = [last_fetch EXCEPT ![r] =
                                         IF saved.raised THEN "sqlite3.Error"
                                         ELSE "saved"]
                    /\ IF saved.raised
                       THEN Raises(r) /\ Disturb
                       ELSE /\ pc' = [pc EXCEPT ![r] = "assets"]
                            /\ UNCHANGED <<db_latest, delta, idx, mode_data,
                                           map_data, scraper_task,
                                           live_tasks, quiet, armed, snap>>
    /\ UNCHANGED <<remoteVars, was_playing, sinkVars>>

\* The two _get_or_fetch_asset_data calls of _process_new_match, the mode
\* first, up to the await of send_match_summary_report.
ResolveAssets(r) ==
    /\ UNCHANGED <<callVars, recVars, bootVars, save_log, repVars, presence_log,
                   seen_new>>
    /\ pc[r] = "assets"
    /\ LET match == delta[r][idx[r]]
           mode == _get_or_fetch_asset_data(Modes, api_status, "Modes",
                                            match.UgcGameVariant)
           map == _get_or_fetch_asset_data(maps, api_status, "maps",
                                           match.MapVariant)
           mode_key == <<"Modes", match.UgcGameVariant>>
           map_key == <<"maps", match.MapVariant>>
           Found(k) == \/ k = mode_key /\ mode.fetched /\ mode.data # None
                       \/ k = map_key /\ map.fetched /\ map.data # None
       IN  /\ Modes' = mode.table
           /\ maps' = map.table
           /\ mode_data' = [mode_data EXCEPT ![r] = mode.data]
           /\ map_data' = [map_data EXCEPT ![r] = map.data]
           /\ asset_fetches' =
                  [k \in AssetKeys |->
                      IF Found(k) /\ asset_fetches[k] < MaxFetches
                      THEN asset_fetches[k] + 1 ELSE asset_fetches[k]]
           /\ refetched' = refetched
                  \cup (IF mode.fetched /\ get_asset_from_db(Modes, match.UgcGameVariant) # None
                        THEN {mode_key} ELSE {})
                  \cup (IF map.fetched /\ get_asset_from_db(maps, match.MapVariant) # None
                        THEN {map_key} ELSE {})
    /\ pc' = [pc EXCEPT ![r] = "summary"]
    /\ UNCHANGED <<remoteVars, matches, stats, team_mmrs, cogVars, db_latest,
                   delta, idx, sinkVars, histVars>>

\* dm.send(msg) succeeded.
Deliver(msg) ==
    /\ sent' = sent \cup {msg}
    /\ resent' = IF msg \in sent THEN resent \cup {msg} ELSE resent

\* send_match_summary_report without its `except Exception`: a failed send
\* leaves check_for_new_matches.
SendSummaryRaises(r, delivered) ==
    /\ UNCHANGED <<callVars, recVars, bootVars, auxVars>>
    /\ pc[r] = "summary"
    /\ LoopFreeFor(r)
    /\ IF delivered
       THEN /\ Deliver(Summary(delta[r][idx[r]].MatchId))
            /\ NextMatch(r, last_fetch[r])
       ELSE /\ Raises(r)
            /\ UNCHANGED <<sinkVars, histVars>>
    /\ UNCHANGED <<remoteVars, storeVars, was_playing>>

\* send_match_summary_report resumes: the DM was delivered, or the send
\* failed and the failure was logged.  Then the for loop goes on.
SendSummary(r, delivered) ==
    /\ UNCHANGED <<callVars, recVars, bootVars, auxVars>>
    /\ pc[r] = "summary"
    /\ LoopFreeFor(r)
    /\ IF delivered THEN Deliver(Summary(delta[r][idx[r]].MatchId))
                    ELSE UNCHANGED sinkVars
    /\ NextMatch(r, last_fetch[r])
    /\ UNCHANGED <<remoteVars, storeVars, was_playing>>

\* refresh after check_for_new_matches returned: ctx.send("Refresh
\* complete.") returns or raises, and the command is over.
RefreshComplete ==
    /\ UNCHANGED <<callVars, recVars, bootVars, auxVars>>
    /\ pc["manual"] = "reply"
    /\ LoopFree
    /\ pc' = [pc EXCEPT !["manual"] = "idle"]
    /\ UNCHANGED <<remoteVars, storeVars, cogVars, db_latest, delta, idx,
                   mode_data, map_data, sinkVars, histVars>>

Next ==
    \/ \E s \in {"ok", "unauthorized", "unavailable"} : ApiStatusChanges(s)
    \/ \E top \in 0..MaxMatches : PageChanges(top)
    \/ \E id \in MatchIds : StatsComputed(id)
    \/ \E found, p \in BOOLEAN : on_ready(found, p)
    \/ \E u \in Users, p \in BOOLEAN :
          on_presence_update(u, p) /\ UNCHANGED presence_log
    \/ SendReport
    \/ \E r \in Runners : StartRun(r)
    \/ \E r \in Runners : ListCall(r) /\ UNCHANGED seen_new
    \/ \E r \in Runners, fault \in SaveFaults : FetchStats(r, fault)
    \/ \E r \in Runners : ResolveAssets(r)
    \/ \E r \in Runners, delivered \in BOOLEAN : SendSummary(r, delivered)
    \/ RefreshComplete

Spec == Init /\ [][Next]_vars

\* ------------------------------------------- get_new_matches on its own
\* A list response of k matches.  Only the equality of match IDs matters to
\* get_new_matches, so the match at position i has the ID i; the start
\* times are arbitrary: any order, equal times included.
PageOfTimes(times) ==
    [i \in DOMAIN times |-> [MatchId |-> i, StartTime |-> times[i]]]
Pages == UNION {{PageOfTimes(t) : t \in [1..k -> 1..MaxTime]} : k \in 0..MaxPage}

InitDelta ==
    /\ InitBot
    /\ call_pc = "call"
    /\ call_status \in {"ok", "unauthorized", "unavailable"}
    /\ call_page \in Pages
    /\ call_old \in 0..MaxPage
    /\ call_result = <<>>
    /\ RecOff /\ SaveOff /\ RepOff

\* scraper.get_new_matches(old_match_id, token).
DeltaCall ==
    /\ call_pc = "call"
    /\ call_result' = get_new_matches(call_old, get_match_list(call_status, call_page))
    /\ call_pc' = "done"
    /\ UNCHANGED <<remoteVars, storeVars, cogVars, bootVars, runVars, sinkVars,
                   histVars, call_status, call_page, call_old, recVars, auxVars>>

NextDelta == DeltaCall

SpecDelta == InitDelta /\ [][NextDelta]_vars

\* ------------------------------------- get_recent_match_data on its own
\* Start times of stored matches, in minutes after 10:00: 10:00, 10:30,
\* 11:00, 13:00, 13:01, 13:30 and 15:00.
RecentTimes == {0, 30, 60, 180, 181, 210, 300}
\* A store of k matches with their stats, as save_match_data leaves it.  The
\* match of rowid i has the ID i; the start times are arbitrary, because
\* the fallback of get_new_matches saves old matches after newer ones.
StoredMatches(times) ==
    [i \in DOMAIN times |->
        [match_id |-> i, start_time |-> times[i], map_variant |-> 1,
         map_version |-> 1, ugc_variant |-> 1]]
StoredStats(times) ==
    [i \in DOMAIN times |-> [match_id |-> i, post_csr |-> 100 + i, team_mmr |-> 10 * i]]
StoredTeamMmrs(times) ==
    [i \in 1..(2 * Len(times)) |->
        [match_id |-> (i + 1) \div 2, team_id |-> (i + 1) % 2,
         mmr |-> (10 * ((i + 1) \div 2)) + ((i + 1) % 2)]]
StoredTimes == UNION {[1..k -> RecentTimes] : k \in 0..MaxStored}
\* The calls the cog makes: session_only=True, count=10 and count=20; and
\* counts below the number of stored matches.
RecentCalls ==
    {<<TRUE, 10>>, <<FALSE, 1>>, <<FALSE, 2>>, <<FALSE, StopReportCount>>, <<FALSE, 20>>}

InitRecent ==
    /\ InitCog
    /\ \E times \in StoredTimes :
          /\ matches = StoredMatches(times)
          /\ stats = StoredStats(times)
          /\ team_mmrs = StoredTeamMmrs(times)
    /\ maps = <<>> /\ Modes = <<>>
    /\ CallOff
    /\ rec_pc = "call"
    /\ \E c \in RecentCalls : rec_session_only = c[1] /\ rec_count = c[2]
    /\ rec_result = <<>>
    /\ SaveOff /\ RepOff

\* match_cache.get_recent_match_data(count, session_only).
RecentCall ==
    /\ rec_pc = "call"
    /\ rec_result' = get_recent_match_data(Db, rec_count, rec_session_only)
    /\ rec_pc' = "done"
    /\ UNCHANGED <<remoteVars, storeVars, cogVars, bootVars, runVars, sinkVars,
                   histVars, callVars, rec_session_only, rec_count, auxVars>>

NextRecent == RecentCall

SpecRecent == InitRecent /\ [][NextRecent]_vars

\* ------------------------------------------- save_match_data on its own
\* The TeamMmrs a skill response can carry: a JSON object, so no team twice;
\* no team, one team or both teams, in either order, with either rating.
TeamIds == {0, 1}
Ratings == {10, 20}
TeamMmrsOptions ==
    {<<>>}
    \cup {<<<<t, m>>>> : t \in TeamIds, m \in Ratings}
    \cup {<<<<t, m>>, <<1 - t, n>>>> : t \in TeamIds, m \in Ratings, n \in Ratings}

InitSave == InitBot /\ CallOff /\ RecOff /\ SaveOff /\ RepOff

\* match_cache.save_match_data(match, stats) for the stats of a response
\* with the given TeamMmrs; the sqlite3 error of a failed call leaves it.
SaveCall(id, teams, fault) ==
    /\ Len(save_log) < MaxSaves
    /\ LET st == [RemoteStats(id) EXCEPT !.TeamMmrs = teams]
           saved == save_match_data(Db, RemoteMatch(id), st, fault)
       IN  /\ matches' = saved.db.matches
           /\ stats' = saved.db.stats
           /\ team_mmrs' = saved.db.team_mmrs
           /\ save_log' = Append(save_log, [MatchId |-> id, TeamMmrs |-> teams,
                                           raised |-> saved.raised])
    /\ UNCHANGED <<remoteVars, maps, Modes, cogVars, bootVars, runVars, sinkVars,
                   histVars, callVars, recVars, assetHist, repVars, presence_log,
                   seen_new>>

NextSave == \E id \in MatchIds, teams \in TeamMmrsOptions, fault \in SaveFaults :
                SaveCall(id, teams, fault)

SpecSave == InitSave /\ [][NextSave]_vars

\* ------------------------------------------------ presence events, logged
\* Presence events handled per behaviour.
MaxEvents == 3

\* discord.py dispatches a presence update of a guild member to
\* on_presence_update; the event is logged as it is handled.
PresenceEvent(after_id, is_playing_halo) ==
    /\ Len(presence_log) < MaxEvents
    /\ on_presence_update(after_id, is_playing_halo)
    /\ presence_log' = Append(presence_log, <<after_id, is_playing_halo>>)

\* The bot with its polling task, matches being played and their stats
\* computed, the service answering, and presence events of both members.
NextPresence ==
    \/ \E u \in Users, p \in BOOLEAN : PresenceEvent(u, p)
    \/ \E top \in 0..MaxMatches : PageChanges(top)
    \/ \E id \in MatchIds : StatsComputed(id)
    \/ SendReport
    \/ StartRun("poll")
    \/ ListCall("poll") /\ UNCHANGED seen_new
    \/ FetchStats("poll", "none")
    \/ ResolveAssets("poll")
    \/ SendSummary("poll", TRUE)

SpecPresence == Init /\ [][NextPresence]_vars

\* ------------------------------------------- the polling loop kept running
\* The matches of the page a run polls that started after the latest
\* stored match, as the run read it from Get_Latest_Match.
NewerInPage(r) ==
    LET latest == IF db_latest[r] = None THEN -1 ELSE db_latest[r][1].StartTime
    IN  {Page[i].MatchId : i \in {j \in DOMAIN Page : Page[j].StartTime > latest}}

\* The configured user starts playing: the polling task is created.
HaloStarted ==
    /\ ~was_playing
    /\ on_presence_update(USER_ID, TRUE)
    /\ UNCHANGED presence_log

\* The user finishes another match: the list shows it on top.
MatchPlayed ==
    /\ page_top < MaxMatches
    /\ PageChanges(page_top + 1)

\* The list call of the polling task's run, with what its page showed.
PollLogged ==
    /\ ListCall("poll")
    /\ seen_new' = seen_new \cup NewerInPage("poll")

\* The bot while the user keeps playing: the service always answers, no
\* statement of the database fails, nobody sends a command.  PageCount is
\* above MaxMatches, so no match leaves the page between two polls.
NextLive ==
    \/ HaloStarted
    \/ MatchPlayed
    \/ \E id \in MatchIds : StatsComputed(id)
    \/ StartRun("poll")
    \/ PollLogged
    \/ FetchStats("poll", "none")
    \/ ResolveAssets("poll")
    \/ \E delivered \in BOOLEAN : SendSummary("poll", delivered)

\* The event loop resumes every coroutine that can go on: the task is
\* created once the user plays, asyncio.sleep(60) ends, and each call of a
\* run returns.  Nothing obliges the user to play another match, nor the
\* skill service to finish the stats of a match.
FairLive ==
    /\ WF_vars(HaloStarted)
    /\ WF_vars(StartRun("poll"))
    /\ WF_vars(PollLogged)
    /\ WF_vars(FetchStats("poll", "none"))
    /\ WF_vars(ResolveAssets("poll"))
    /\ WF_vars(\E delivered \in BOOLEAN : SendSummary("poll", delivered))

SpecLive == Init /\ [][NextLive]_vars /\ FairLive

\* ---------------------------------------- graph_generator, and report alone
\* generate_csr_trend_plot without `if not data`.
GenerateCsrNoEmptyTest(data) == Some("csr_trend.png")

\* generate_csr_trend_plot: no file for no data, or when no row has a
\* post_csr; every stored row of this model has one.  Otherwise the plot is
\* saved as PLOT_DIR/csr_trend.png and the path returned.
generate_csr_trend_plot(data) ==
    IF data = <<>> THEN None ELSE Some("csr_trend.png")
\* generate_kd_plot.
generate_kd_plot(data) ==
    IF data = <<>> THEN None ELSE Some("kd_plot.png")
\* generate_kd_ratio_plot.
generate_kd_ratio_plot(data) ==
    IF data = <<>> THEN None ELSE Some("kd_ratio_plot.png")

\* The three charts in the order report draws them.
ChartCount == 3
Generate(i, data) ==
    CASE i = 1 -> generate_csr_trend_plot(data)
      [] i = 2 -> generate_kd_plot(data)
      [] OTHER -> generate_kd_ratio_plot(data)

\* The messages of report to the channel of the command.
Generating == "Generating report..."
TooShort ==
    "Your current session has fewer than 3 matches. Generating report for the last 20 matches instead."
ReportSent == "Report sent!"
NoData == "Could not generate report: No match data found."

\* `if len(recent_matches_raw) < 3` as `if not recent_matches_raw`.
SessionEmpty(rows) == rows = <<>>

\* `if len(recent_matches_raw) < 3`.
SessionTooShort(rows) == Len(rows) < MinSession

\* Start times of the stored matches, in minutes: three half an hour apart
\* and one two and a half hours after them.
ReportTimes == {0, 30, 60, 210}
ReportStores == UNION {[1..k -> ReportTimes] : k \in 0..MaxStored}

InitReport ==
    /\ InitCog
    /\ \E times \in ReportStores :
          /\ matches = StoredMatches(times)
          /\ stats = StoredStats(times)
          /\ team_mmrs = StoredTeamMmrs(times)
    /\ maps = <<>> /\ Modes = <<>>
    /\ CallOff /\ RecOff /\ SaveOff
    /\ rep_pc = "call"
    /\ rep_rows = <<>>
    /\ rep_chart = 0
    /\ rep_files = {}
    /\ rep_log = <<>>
    /\ LogOff

reportFrame ==
    <<remoteVars, storeVars, cogVars, bootVars, runVars, sinkVars, histVars,
      callVars, recVars, assetHist, save_log, presence_log, seen_new>>

\* An await of report raised: the exception leaves the command.
ReportRaises(event) ==
    /\ rep_pc' = "raised"
    /\ rep_log' = Append(rep_log, event)
    /\ UNCHANGED <<rep_rows, rep_chart, rep_files>>

\* The statements of report from chart i on, up to the next await: the
\* generator of the first chart that gives a path has saved its file and
\* dm.send(file=...) is awaited; after the last chart ctx.send("Report
\* sent!") is awaited.
DrawFrom(i, files, log) ==
    IF \E j \in i..ChartCount : Generate(j, rep_rows) # None
    THEN LET j == CHOOSE k \in i..ChartCount :
                      /\ Generate(k, rep_rows) # None
                      /\ \A l \in i..(k - 1) : Generate(l, rep_rows) = None
             path == Generate(j, rep_rows)[1]
         IN  /\ rep_pc' = "send"
             /\ rep_chart' = j
             /\ rep_files' = files \cup {path}
             /\ rep_log' = Append(log, <<"gen", path>>)
    ELSE /\ rep_pc' = "sent"
         /\ rep_chart' = 0
         /\ rep_files' = files
         /\ rep_log' = log

\* report from its start: ctx.send("Generating report...") returned, the
\* session is read, and for a session of fewer than 3 matches the warning
\* is sent.
ReportGreet(ok) ==
    /\ rep_pc = "call"
    /\ IF ~ok THEN ReportRaises(<<"ctx_failed", Generating>>)
       ELSE LET session == get_recent_match_data(Db, DefaultCount, TRUE)
            IN  /\ rep_rows' = session
                /\ rep_log' = rep_log \o <<<<"ctx", Generating>>,
                                           <<"read", "session_only=True">>>>
                /\ rep_pc' = IF SessionTooShort(session) THEN "warn" ELSE "dm"
                /\ UNCHANGED <<rep_chart, rep_files>>
    /\ UNCHANGED reportFrame

\* The warning was sent: recent_matches_raw = get_recent_match_data(count=20),
\* then `if recent_matches_raw`.
ReportWarn(ok) ==
    /\ rep_pc = "warn"
    /\ IF ~ok THEN ReportRaises(<<"ctx_failed", TooShort>>)
       ELSE LET last == get_recent_match_data(Db, ReportCount, FALSE)
            IN  /\ rep_rows' = last
                /\ rep_log' = rep_log \o <<<<"ctx", TooShort>>, <<"read", "count=20">>>>
                /\ rep_pc' = IF last # <<>> THEN "dm" ELSE "nodata"
                /\ UNCHANGED <<rep_chart, rep_files>>
    /\ UNCHANGED reportFrame

\* fetch_user and create_dm returned, the first chart is drawn.
ReportOpenDm(ok) ==
    /\ rep_pc = "dm"
    /\ IF ~ok THEN ReportRaises(<<"dm_failed", "create_dm">>)
       ELSE /\ DrawFrom(1, rep_files, rep_log)
            /\ UNCHANGED rep_rows
    /\ UNCHANGED reportFrame

\* dm.send(file=discord.File(path)) returned: os.remove(path), then the next
\* chart.  When the send raised, the statements after it do not run.
ReportSendChart(ok) ==
    /\ rep_pc = "send"
    /\ LET path == Generate(rep_chart, rep_rows)[1]
       IN  IF ~ok THEN ReportRaises(<<"dm_failed", path>>)
           ELSE /\ DrawFrom(rep_chart + 1, rep_files \ {path},
                            rep_log \o <<<<"dm", path>>, <<"rm", path>>>>)
                /\ UNCHANGED rep_rows
    /\ UNCHANGED reportFrame

\* The last ctx.send of report returned or raised.
ReportFinish(ok) ==
    /\ rep_pc \in {"sent", "nodata"}
    /\ LET text == IF rep_pc = "sent" THEN ReportSent ELSE NoData
       IN  IF ~ok THEN ReportRaises(<<"ctx_failed", text>>)
           ELSE /\ rep_pc' = "done"
                /\ rep_log' = Append(rep_log, <<"ctx", text>>)
                /\ UNCHANGED <<rep_rows, rep_chart, rep_files>>
    /\ UNCHANGED reportFrame

NextReport ==
    \/ \E ok \in BOOLEAN : ReportGreet(ok)
    \/ \E ok \in BOOLEAN : ReportWarn(ok)
    \/ \E ok \in BOOLEAN : ReportOpenDm(ok)
    \/ \E ok \in BOOLEAN : ReportSendChart(ok)
    \/ \E ok \in BOOLEAN : ReportFinish(ok)

SpecReport == InitReport /\ [][NextReport]_vars


\* ===================================================================== claims
\* Steps of a runner, told from the two states of the step.
StartRunStep(r) == ~InRun(r) /\ pc'[r] = "list"
ListCallStep(r) == pc[r] = "list" /\ pc'[r] # "list"
FetchStatsStep(r) == pc[r] = "stats" /\ (pc'[r] # "stats" \/ idx'[r] # idx[r])
\* The match the for loop of runner r is at.
CurrentMatch(r) == delta[r][idx[r]]
\* The run of r is over and check_for_new_matches has returned.
Returned(r) == pc'[r] = Rest(r) /\ scraper_task' = scraper_task
\* The for loop of r goes on with the next match, or returns after the last.
GoesOn(r) ==
    IF idx[r] < Len(delta[r])
    THEN pc'[r] = "stats" /\ idx'[r] = idx[r] + 1 /\ delta'[r] = delta[r]
    ELSE Returned(r)
PageIds == {Page[i].MatchId : i \in DOMAIN Page}
\* The rows of a table for one match, in rowid order.
RowsFor(table, match_id) ==
    LET Mine(row) == row.match_id = match_id IN SelectSeq(table, Mine)
\* No two rows of the table have the same primary key.
UniqueMatchId(table) ==
    \A i, j \in DOMAIN table : table[i].match_id = table[j].match_id => i = j
UniqueTeam(table) ==
    \A i, j \in DOMAIN table :
        (table[i].match_id = table[j].match_id /\ table[i].team_id = table[j].team_id)
            => i = j

\* C1. Idempotence: after a run of check_for_new_matches that saw an unchanged
\* remote side has ended, and for as long as the remote side stays unchanged,
\* further runs leave every table with the rows and the row count that run
\* left.
Idempotent == armed => Tables = snap
\* A second run has saved a match again, and the tables are as they were.
IdempotentWitness ==
    armed /\ \E r \in Runners : pc[r] = "summary" /\ last_fetch[r] = "saved"

\* C2. Delta computation: when the old match ID is in the page the list call
\* returned, get_new_matches returns exactly the matches of the page whose
\* start time is greater than the old match's, in the order of the page; the
\* old match and every match that is not newer are left out.
DeltaIsNewer ==
    (call_pc = "done" /\ call_status = "ok" /\ call_old \in DOMAIN call_page) =>
        LET T == call_page[call_old].StartTime
            newer == {i \in DOMAIN call_page : call_page[i].StartTime > T}
            ids == {call_result[i].MatchId : i \in DOMAIN call_result}
        IN  /\ ids = newer
            /\ Len(call_result) = Cardinality(newer)
            /\ \A i \in DOMAIN call_result : call_result[i] = call_page[call_result[i].MatchId]
            /\ \A i, j \in DOMAIN call_result :
                  i < j => call_result[i].MatchId < call_result[j].MatchId
            /\ call_old \notin ids
\* The page of the claim: start times T-1, T, T+1, T+2 with T = 2, the old
\* match the one at T; the delta has the two newer matches.
DeltaIsNewerWitness ==
    /\ call_pc = "done" /\ call_status = "ok"
    /\ Len(call_page) = 4
    /\ {call_page[i].StartTime : i \in DOMAIN call_page} = 1..4
    /\ call_old \in DOMAIN call_page
    /\ call_page[call_old].StartTime = 2
    /\ {call_result[i].StartTime : i \in DOMAIN call_result} = {3, 4}
    /\ Len(call_result) = 2

\* C3. Fallback: when the latest known match ID is not in the page the list
\* call returned, the delta is the whole page; and no table ever holds two
\* rows with the same key, also after stored matches were processed again.
FallbackWholePage ==
    /\ [][\A r \in Runners :
            (ListCallStep(r) /\ api_status = "ok" /\ db_latest[r] # None
                /\ db_latest[r][1].MatchId \notin PageIds)
              => (delta'[r] = Page /\ (Page # <<>> => pc'[r] = "stats"))]_vars
    /\ [](UniqueMatchId(matches) /\ UniqueMatchId(stats) /\ UniqueTeam(team_mmrs))
\* A run in the fallback (its known match is not in the page) has just saved
\* the first match of the page, which was stored before the run began.
FallbackWholePageWitness ==
    \E r \in Runners :
        /\ pc[r] = "assets" /\ idx[r] = 1
        /\ db_latest[r] # None /\ db_latest[r][1].MatchId \notin PageIds
        /\ delta[r] = Page
        /\ armed

\* C4. Empty store: Get_Latest_Match gives None when the matches table is
\* empty, and a run that read None gets the whole page as its delta.
EmptyStoreWholePage ==
    [][\A r \in Runners :
          /\ (StartRunStep(r) /\ matches = <<>>) => db_latest'[r] = None
          /\ (StartRunStep(r) /\ matches # <<>>) => db_latest'[r] # None
          /\ (ListCallStep(r) /\ db_latest[r] = None /\ api_status = "ok")
                => (delta'[r] = Page /\ (Page # <<>> => pc'[r] = "stats"))]_vars
\* A run on the empty store is about to process a page of two matches.
EmptyStoreWholePageWitness ==
    \E r \in Runners :
        /\ pc[r] = "stats" /\ idx[r] = 1 /\ db_latest[r] = None
        /\ matches = <<>>
        /\ delta[r] = Page /\ Len(Page) = 2

\* C5. Auth-failure halt: when the stats call for a match of the delta is
\* rejected with 401, the run is over at once (no later match is fetched,
\* saved or notified), the store keeps what was committed, and the polling
\* task is no longer pending, so no scheduled run follows.
AuthFailureHalts ==
    [][\A r \in Runners :
          (FetchStatsStep(r) /\ api_status = "unauthorized") =>
              /\ ~InRun(r)'
              /\ UNCHANGED <<storeVars, sinkVars>>
              /\ scraper_task' # "pending"]_vars

\* C6. Whenever a list call or a stats call of a run is rejected with 401,
\* the user has been sent the instructions of _handle_invalid_token by the
\* time the run is over.
AuthFailureNotifies ==
    [][\A r \in Runners :
          ((ListCallStep(r) \/ FetchStatsStep(r)) /\ api_status = "unauthorized"
              /\ ~InRun(r)')
            => TokenExpired \in sent']_vars

\* C7. A run whose list call is rejected with 401 halts the polling loop and
\* does not end like a run that found no new match (check_for_new_matches
\* returns, nothing else changes).
ListAuthFailureDistinct ==
    [][\A r \in Runners :
          (ListCallStep(r) /\ api_status = "unauthorized") =>
              /\ scraper_task' # "pending"
              /\ ~(Returned(r) /\ UNCHANGED sinkVars)]_vars

NotReadySkips ==
    [][\A r \in Runners :
          (FetchStatsStep(r) /\ api_status = "ok"
              /\ CurrentMatch(r).MatchId \notin stats_ready) =>
              (UNCHANGED <<storeVars, scraper_task>> /\ GoesOn(r))]_vars
\* The stats of the first match were not ready and the run is at the second.
NotReadySkipsWitness ==
    \E r \in Runners :
        pc[r] = "stats" /\ idx[r] = 2 /\ last_fetch[r] = "not_ready"

\* C10. Per-match atomicity: every step, a failed save_match_data and the
\* cancellation of the polling task included, leaves the rows of each match
\* ID as they were, or leaves exactly the rows of one complete save: the
\* match row, the stats row and one row per team of the stats response.
WrittenByOneSave(match_id) ==
    /\ RowsFor(matches, match_id) =
          <<[match_id |-> match_id, start_time |-> StartTimeOf(match_id),
             map_variant |-> MapOf(match_id).AssetId,
             map_version |-> MapOf(match_id).VersionId,
             ugc_variant |-> ModeOf(match_id).AssetId]>>
    /\ RowsFor(stats, match_id) =
          <<[match_id |-> match_id, post_csr |-> RemoteStats(match_id).RankRecap,
             team_mmr |-> RemoteStats(match_id).TeamMmr]>>
    /\ RowsFor(team_mmrs, match_id) =
          [i \in DOMAIN TeamMmrsOf(match_id) |->
              [match_id |-> match_id, team_id |-> TeamMmrsOf(match_id)[i][1],
               mmr |-> TeamMmrsOf(match_id)[i][2]]]
MatchWriteAtomic ==
    [][\A id \in MatchIds :
          \/ UNCHANGED <<RowsFor(matches, id), RowsFor(stats, id),
                         RowsFor(team_mmrs, id)>>
          \/ WrittenByOneSave(id)']_vars
\* A save_match_data call has failed while the store held a match.
MatchWriteAtomicWitness ==
    /\ \E r \in Runners : last_fetch[r] = "sqlite3.Error"
    /\ matches # <<>>

\* C11. Mutual exclusion of synchronize: the polling task and the refresh
\* command are never both inside check_for_new_matches.
SynchronizeExclusive == ~(InRun("poll") /\ InRun("manual"))

\* C12. At most one polling task is live at any time; a run of the task
\* begins only when the task is new or has slept, and the task goes to its
\* 60-second sleep only from a run that has gone through its whole delta.
OnePollingTask ==
    /\ [](live_tasks <= 1)
    /\ [][(pc["poll"] # "list" /\ pc'["poll"] = "list")
            => pc["poll"] \in {"created", "sleep"}]_vars
    /\ [][(pc["poll"] # "sleep" /\ pc'["poll"] = "sleep")
            => /\ InRun("poll")
               /\ (pc["poll"] = "list" \/ idx["poll"] = Len(delta["poll"]))]_vars
\* on_ready has run, the user is playing, and the one live task sleeps
\* after a run; a match is stored.
OnePollingTaskWitness ==
    /\ booted /\ was_playing /\ live_tasks = 1
    /\ pc["poll"] = "sleep" /\ matches # <<>>

\* C13. Presence edge detection: an event for the configured user starts
\* watching only when it shows playing and the flag is false, stops watching
\* only when it shows not playing and the flag is true, and changes nothing
\* when it repeats the flag; no task is started by an event while the flag is
\* true, and the task is cancelled and a report read only as the flag falls.
EdgeDetection ==
    /\ [][\A p \in BOOLEAN : on_presence_update(USER_ID, p) =>
            /\ (p = was_playing) => UNCHANGED vars
            /\ (p /\ ~was_playing) =>
                  (was_playing' /\ scraper_task' = "pending" /\ UNCHANGED report_rows)
            /\ (~p /\ was_playing) => (~was_playing' /\ scraper_task' # "pending")]_vars
    /\ [][(booted' = booted /\ live_tasks' > live_tasks)
            => (~was_playing /\ was_playing')]_vars
    /\ [][((scraper_task = "pending" /\ scraper_task' = "None")
              \/ (report_rows' # report_rows /\ report_rows' # <<>>))
            => (was_playing /\ ~was_playing')]_vars
\* Before on_ready, a started edge and then a stopped edge have fired: the
\* flag is false again and the report of the stopped edge is being sent.
EdgeDetectionWitness ==
    ~booted /\ ~was_playing /\ report_rows # <<>> /\ scraper_task = "None"

\* C14. IDLE to WATCHING: the started edge creates the task, whose first run
\* begins before any sleep, and while the flag is true the task stays alive
\* (unless the token was rejected, the one condition that halts polling).
WatchingKeepsPolling ==
    /\ [][(~was_playing /\ was_playing') => pc'["poll"] = "created"]_vars
    /\ [][(pc["poll"] = "created" /\ pc'["poll"] # "created")
            => pc'["poll"] = "list"]_vars
    /\ []((was_playing /\ last_fetch["poll"] # "InvalidTokenError")
            => scraper_task = "pending")

\* C15. WATCHING to IDLE: the stopped edge leaves no live polling task, and
\* the report it computes is the session of the latest stored match.
StopReportsSession ==
    [][(was_playing /\ ~was_playing') =>
          /\ scraper_task' # "pending" /\ live_tasks' = 0
          /\ report_rows' = get_recent_match_data(Db, StopReportCount, TRUE)]_vars

\* C16. Startup seeding: on_ready with the user playing sets the flag and
\* leaves exactly one live task; with the user not playing, or not found, it
\* changes neither the flag nor the task; and a presence event that shows
\* playing while the flag is true changes neither.
StartupSeeding ==
    /\ [][\A found, p \in BOOLEAN : on_ready(found, p) =>
            IF found /\ p
            THEN /\ was_playing' /\ scraper_task' = "pending" /\ live_tasks' = 1
                 /\ (scraper_task = "pending" => UNCHANGED runVars)
            ELSE UNCHANGED <<cogVars, runVars>>]_vars
    /\ [][(booted' # booted) =>
            /\ live_tasks' <= 1
            /\ (was_playing' # was_playing =>
                   (was_playing' /\ pc'["poll"] = "created"))]_vars
    /\ [][\A p \in BOOLEAN : (on_presence_update(USER_ID, p) /\ p /\ was_playing)
            => UNCHANGED <<cogVars, runVars>>]_vars
\* on_ready found the user playing: the flag is set and the new task is
\* about to make its first run.
StartupSeedingWitness ==
    /\ booted /\ was_playing /\ live_tasks = 1
    /\ pc["poll"] = "created" /\ scraper_task = "pending"

\* C17. get_recent_match_data returns its rows in ascending order of start
\* time, with session_only and without.
RecentAscending ==
    rec_pc = "done" =>
        \A i \in 1..(Len(rec_result) - 1) :
            rec_result[i].start_time <= rec_result[i + 1].start_time

\* The stored start times, and the start times of the rows returned.
StoredStartTimes == [i \in DOMAIN matches |-> matches[i].start_time]
ResultStartTimes == [i \in DOMAIN rec_result |-> rec_result[i].start_time]
\* The store holds exactly the four matches of 10:00, 10:30, 11:00, 13:30.
ExampleStored ==
    /\ Len(matches) = 4
    /\ {matches[i].start_time : i \in DOMAIN matches} = {0, 30, 60, 210}

\* C18 as stated. With matches at 10:00, 10:30, 11:00 and 13:30 stored, the
\* session is the first three matches in ascending order.
SessionExampleFirstThree ==
    (rec_pc = "done" /\ rec_session_only /\ ExampleStored)
        => ResultStartTimes = <<0, 30, 60>>
\* C18 as amended. With matches at 10:00, 10:30, 11:00 and 13:30 stored, the
\* session is the match of 13:30 alone: the walk starts at the latest match
\* and the match before it began more than 2 hours earlier.
SessionExampleLatest ==
    (rec_pc = "done" /\ rec_session_only /\ ExampleStored)
        => ResultStartTimes = <<210>>
\* The session of the example store has been computed; the store holds the
\* four matches in an order other than that of their start times.
SessionExampleLatestWitness ==
    /\ rec_pc = "done" /\ rec_session_only
    /\ StoredStartTimes = <<30, 210, 0, 60>>

\* The stored start times from t on have no two neighbours more than 2
\* hours apart.
NoGapFrom(t) ==
    LET T == {matches[i].start_time : i \in DOMAIN matches}
    IN \A a, b \in T :
          (t <= a /\ a < b /\ ~(\E c \in T : a < c /\ c < b)) => b - a <= SessionGap
\* C19. Session definition: with session_only the rows returned are exactly
\* the stored matches from which the start times up to the latest one have
\* no gap above 2 hours, each once, in ascending order; none when the store
\* is empty.
SessionIsLongestRun ==
    (rec_pc = "done" /\ rec_session_only) =>
        /\ {rec_result[i].match_id : i \in DOMAIN rec_result}
              = {matches[i].match_id : i \in
                    {j \in DOMAIN matches : NoGapFrom(matches[j].start_time)}}
        /\ \A i, j \in DOMAIN rec_result :
              i < j => /\ rec_result[i].match_id # rec_result[j].match_id
                       /\ rec_result[i].start_time <= rec_result[j].start_time
        /\ \A i \in DOMAIN rec_result :
              \E j \in DOMAIN matches :
                 /\ matches[j].match_id = rec_result[i].match_id
                 /\ matches[j].start_time = rec_result[i].start_time
        /\ (matches = <<>> => rec_result = <<>>)
\* A session that spans a gap of exactly 2 hours (13:00 to 15:00) and ends
\* at a gap of 2 hours 30 (10:30 to 13:00).
SessionIsLongestRunWitness ==
    /\ rec_pc = "done" /\ rec_session_only
    /\ StoredStartTimes = <<300, 30, 180>>
    /\ ResultStartTimes = <<180, 300>>

\* C20. Stats imply match: every row of stats has a row of matches with the
\* same match ID.
StatsImplyMatch ==
    \A i \in DOMAIN stats : \E j \in DOMAIN matches :
        matches[j].match_id = stats[i].match_id
\* Both matches are stored with their stats, the first saved again after
\* the second.
StatsImplyMatchWitness ==
    /\ Len(stats) = 2
    /\ stats[1].match_id = 2 /\ stats[2].match_id = 1

\* The saves of a match that committed, oldest first.
CommittedSaves(match_id) ==
    LET Mine(e) == e.MatchId = match_id /\ ~e.raised IN SelectSeq(save_log, Mine)
\* The (team ID, rating) pairs of the rows stored for a match.
TeamRows(match_id) ==
    LET rows == RowsFor(team_mmrs, match_id)
    IN  {<<rows[i].team_id, rows[i].mmr>> : i \in DOMAIN rows}
TeamsOf(save) == {save.TeamMmrs[i] : i \in DOMAIN save.TeamMmrs}

\* C21. No stale team ratings: after any sequence of saves the rows stored
\* for a match are exactly the (team ID, rating) pairs of the last stats
\* saved for it, one row each; a match never saved has no row.
NoStaleTeamRatings ==
    \A id \in MatchIds :
        LET saves == CommittedSaves(id)
        IN  IF saves = <<>> THEN RowsFor(team_mmrs, id) = <<>>
            ELSE /\ TeamRows(id) = TeamsOf(saves[Len(saves)])
                 /\ Len(RowsFor(team_mmrs, id)) = Len(saves[Len(saves)].TeamMmrs)
\* A match was saved twice, the first time with a team the second save does
\* not carry, and that team has no row.
NoStaleTeamRatingsWitness ==
    \E id \in MatchIds :
        LET saves == CommittedSaves(id)
        IN  /\ Len(saves) = 2
            /\ \E p \in TeamsOf(saves[1]) :
                   /\ \A q \in TeamsOf(saves[2]) : q[1] # p[1]
                   /\ \A q \in TeamRows(id) : q[1] # p[1]
            /\ TeamRows(id) # {}

\* The cache table of an asset key and the rows it holds for the key.
TableOf(k) == IF k[1] = "maps" THEN maps ELSE Modes
CacheRows(k) ==
    LET Mine(row) == row.AssetId = k[2].AssetId /\ row.VersionId = k[2].VersionId
    IN  SelectSeq(TableOf(k), Mine)

\* C22. Asset cache: an asset key has a cache row exactly when one remote
\* fetch has returned it; from then on the row stays as it is, no run of
\* check_for_new_matches asks the remote side for that key again, and so
\* the matches that refer to the same asset cause one fetch of it.
AssetCachedOnce ==
    /\ [](refetched = {})
    /\ [](\A k \in AssetKeys :
            /\ Len(CacheRows(k)) <= 1
            /\ asset_fetches[k] = Len(CacheRows(k)))
    /\ [][\A k \in AssetKeys : CacheRows(k) # <<>> => CacheRows(k)' = CacheRows(k)]_vars
\* The summaries of matches 1 and 2, which were played on the same map, were
\* sent, and the map was fetched once.
AssetCachedOnceWitness ==
    /\ MapOf(1) = MapOf(2)
    /\ {Summary(1), Summary(2)} \subseteq sent
    /\ asset_fetches[<<"maps", MapOf(1)>>] = 1
    /\ Len(CacheRows(<<"maps", MapOf(1)>>)) = 1

\* What report did, by kind of event, oldest first.
Events(kind) == LET Mine(e) == e[1] = kind IN SelectSeq(rep_log, Mine)
\* How often report did `kind` to the chart file `path`.
Times(kind, path) ==
    Cardinality({i \in DOMAIN rep_log : rep_log[i][1] = kind /\ rep_log[i][2] = path})
Generated == {Events("gen")[i][2] : i \in DOMAIN Events("gen")}
ReportOver == rep_pc \in {"done", "raised"}
MatchIdsOf(rows) == {rows[i].match_id : i \in DOMAIN rows}

\* C23. No leaked chart files: when report has ended, by its last message
\* or by an exception, no chart file it generated exists; and when it ended
\* by its last message each file it generated was sent once and removed
\* once.
NoLeakedCharts ==
    /\ ReportOver => rep_files = {}
    /\ rep_pc = "done" =>
          \A path \in Generated : Times("dm", path) = 1 /\ Times("rm", path) = 1

\* C24. Empty input to reporting: with no stored match to report on, report
\* generates and sends no chart, leaves no file, ends with the message 'Could
\* not generate report: No match data found.', and raises nothing unless a
\* send of its own messages fails; each chart generator gives no path for
\* an empty list.
EmptyReport ==
    /\ get_recent_match_data(Db, ReportCount, FALSE) = <<>> =>
          /\ Events("gen") = <<>> /\ Events("dm") = <<>> /\ rep_files = {}
          /\ rep_pc \in {"call", "warn", "nodata", "done", "raised"}
          /\ rep_pc = "done" => rep_log[Len(rep_log)] = <<"ctx", NoData>>
          /\ rep_pc = "raised" => rep_log[Len(rep_log)][1] = "ctx_failed"
    /\ generate_csr_trend_plot(<<>>) = None
    /\ generate_kd_plot(<<>>) = None
    /\ generate_kd_ratio_plot(<<>>) = None
\* report has ended on an empty store, with the message of no data.
EmptyReportWitness ==
    /\ matches = <<>>
    /\ rep_pc = "done"
    /\ rep_log[Len(rep_log)] = <<"ctx", NoData>>
    /\ Events("read") # <<>>

\* C25. Report selection: the matches report draws its charts from are the
\* matches of the current session when the session has at least 3 matches,
\* and the last 20 stored matches when it has fewer.
ReportSelection ==
    rep_pc \in {"dm", "send", "sent", "done"} /\ Events("gen") # <<>> =>
        LET session == get_recent_match_data(Db, DefaultCount, TRUE)
            last == get_recent_match_data(Db, 20, FALSE)
        IN  MatchIdsOf(rep_rows) =
               IF Len(session) >= 3 THEN MatchIdsOf(session) ELSE MatchIdsOf(last)
\* Four matches are stored, three of them in the current session, and the
\* charts were drawn from these three.
ReportSelectionWitness ==
    /\ Len(matches) = 4
    /\ Len(get_recent_match_data(Db, DefaultCount, TRUE)) = 3
    /\ rep_pc = "done"
    /\ Cardinality(Generated) = ChartCount
    /\ Cardinality(MatchIdsOf(rep_rows)) = 3

\* C26. report reads the recent match data once, with count=20, whether the
\* store has matches or not.
ReportReadsOnce ==
    rep_pc \in {"dm", "nodata"} => Events("read") = <<<<"read", "count=20">>>>

\* Runner r took the step.
Stepped(r) == pc'[r] # pc[r] \/ idx'[r] # idx[r]
\* The task was cancelled by stop_scraper.
Cancelled(r) == r = "poll" /\ pc'[r] = "none" /\ scraper_task' = "None"
Stored(match_id) == \E i \in DOMAIN matches : matches[i].match_id = match_id
\* The match has a row after the step.
StoredAfter(match_id) == \E i \in DOMAIN matches' : matches'[i].match_id = match_id

\* C27. Manual refresh: a refresh command makes one pass of
\* check_for_new_matches, and ends only by reporting completion, which it
\* does after the pass has returned; no step of the command changes the
\* playing flag or the polling task.
RefreshReportsCompletion ==
    [][/\ (pc["manual"] # "idle" /\ pc'["manual"] = "idle") => pc["manual"] = "reply"
       /\ (pc["manual"] # "reply" /\ pc'["manual"] = "reply") => InRun("manual")
       /\ (pc["manual"] # "list" /\ pc'["manual"] = "list") => pc["manual"] = "idle"
       /\ Stepped("manual") =>
             /\ was_playing' = was_playing
             /\ scraper_task' = scraper_task /\ live_tasks' = live_tasks
             /\ pc'["poll"] = pc["poll"]]_vars

\* C28. Asset not found: when the map or the mode of a match is not cached
\* and the remote lookup gives nothing, the match is stored all the same,
\* no row is written to the cache for that key, the summary is sent with the
\* asset ID in place of the name, and after it the for loop goes on.
AssetNotFound ==
    /\ [][\A r \in Runners :
            (pc[r] = "assets" /\ pc'[r] # "assets") =>
               LET match == CurrentMatch(r)
                   mode_key == <<"Modes", match.UgcGameVariant>>
                   map_key == <<"maps", match.MapVariant>>
                   Missed(k) == /\ CacheRows(k) = <<>>
                                /\ fetch_ugc_asset(api_status, k[1], k[2]) = None
               IN  /\ \A k \in AssetKeys :
                         (k \in {mode_key, map_key} /\ Missed(k)) => CacheRows(k)' = <<>>
                   /\ Missed(mode_key) => mode_data'[r] = None
                   /\ Missed(map_key) => map_data'[r] = None
                   /\ pc'[r] = "summary"
                   /\ StoredAfter(match.MatchId)]_vars
    /\ [](\A r \in Runners :
            pc[r] = "summary" =>
               LET match == CurrentMatch(r)
                   text == format_match_summary(match, mode_data[r], map_data[r])
               IN  /\ mode_data[r] = None =>
                         text.Mode = <<"id", match.UgcGameVariant.AssetId>>
                   /\ map_data[r] = None =>
                         /\ text.Map[1] = "id"
                         /\ text.Map[2] = match.MapVariant.AssetId)
    /\ [][\A r \in Runners :
            (pc[r] = "summary" /\ Stepped(r)
                /\ (mode_data[r] = None \/ map_data[r] = None)) =>
               Cancelled(r) \/ GoesOn(r)]_vars
\* The summary of match 2, whose mode the remote side does not know, was
\* sent; the match is stored and the cache has no row for the mode.
AssetNotFoundWitness ==
    /\ fetch_ugc_asset("ok", "Modes", ModeOf(2)) = None
    /\ Summary(2) \in sent
    /\ Stored(2)
    /\ CacheRows(<<"Modes", ModeOf(2)>>) = <<>>

\* C29. Notification failures are contained: when the send of a summary
\* fails, the summary is not sent again, the match stays stored, the for
\* loop goes on with the next match of the delta or returns, and the task
\* stays the pending task.
NotificationContained ==
    [][\A r \in Runners :
          (pc[r] = "summary" /\ Stepped(r) /\ ~Cancelled(r)
              /\ Summary(CurrentMatch(r).MatchId) \notin sent') =>
             /\ StoredAfter(CurrentMatch(r).MatchId)
             /\ storeVars' = storeVars
             /\ GoesOn(r)
             /\ scraper_task' = scraper_task /\ live_tasks' = live_tasks]_vars
\* The send of the summary of the first match of a delta has failed; the
\* match is stored and the loop is at the second match.
NotificationContainedWitness ==
    \E r \in Runners :
        /\ pc[r] = "stats" /\ idx[r] = 2
        /\ last_fetch[r] = "saved"
        /\ Stored(delta[r][1].MatchId)
        /\ Summary(delta[r][1].MatchId) \notin sent

\* The position of a match in the page of the list endpoint.
PagePos(match_id) == CHOOSE i \in DOMAIN Page : Page[i].MatchId = match_id

\* C30. Processing order: the delta of a run is in the order of the list
\* response; the for loop takes its matches one at a time in that order,
\* and goes to the next match only after the summary of the current one, or
\* when the current one has no stats yet; what a run saves and sends
\* belongs to the match its loop is at.
ProcessingOrder ==
    [][\A r \in Runners :
          /\ (pc[r] = "list" /\ pc'[r] = "stats") =>
                /\ idx'[r] = 1
                /\ \A i \in DOMAIN delta'[r] : delta'[r][i].MatchId \in PageIds
                /\ \A i, j \in DOMAIN delta'[r] :
                       i < j => PagePos(delta'[r][i].MatchId) < PagePos(delta'[r][j].MatchId)
          /\ (pc[r] \in {"stats", "assets", "summary"}
                 /\ pc'[r] \in {"stats", "assets", "summary"}) =>
                /\ delta'[r] = delta[r]
                /\ \/ idx'[r] = idx[r]
                   \/ /\ idx'[r] = idx[r] + 1
                      /\ pc'[r] = "stats"
                      /\ pc[r] = "summary" \/ (pc[r] = "stats" /\ storeVars' = storeVars)
          /\ (pc'[r] = "assets" /\ pc[r] # "assets") =>
                pc[r] = "stats" /\ idx'[r] = idx[r] /\ StoredAfter(CurrentMatch(r).MatchId)
          /\ (pc'[r] = "summary" /\ pc[r] # "summary") =>
                pc[r] = "assets" /\ idx'[r] = idx[r]
          /\ (Stepped(r) /\ sent' # sent) =>
                pc[r] = "summary" /\ sent' = sent \cup {Summary(CurrentMatch(r).MatchId)}]_vars
\* A run found both matches new, the newer one first as the list gives
\* them; it has sent the summary of the newer match and is at the older one.
ProcessingOrderWitness ==
    \E r \in Runners :
        /\ Len(delta[r]) = 2 /\ idx[r] = 2 /\ pc[r] = "stats"
        /\ delta[r][1].StartTime > delta[r][2].StartTime
        /\ Summary(delta[r][1].MatchId) \in sent
        /\ Summary(delta[r][2].MatchId) \notin sent

HasStatsAfter(match_id) == \E j \in DOMAIN stats' : stats'[j].match_id = match_id
TeamRowsAfter(match_id) ==
    {<<team_mmrs'[i].team_id, team_mmrs'[i].mmr>> :
        i \in {k \in DOMAIN team_mmrs' : team_mmrs'[k].match_id = match_id}}

\* C31. Per-match step order: a run resolves the assets of a match only
\* after the match, its stats and its team ratings are stored; it asks the
\* remote side for an asset only when the cache has no row for it; it sends
\* the summary only after the assets; and every summary sent is that of a
\* match that is stored.
PerMatchStepOrder ==
    /\ [][\A r \in Runners :
            /\ (pc'[r] = "assets" /\ pc[r] # "assets") =>
                  /\ pc[r] = "stats"
                  /\ StoredAfter(CurrentMatch(r).MatchId)
                  /\ HasStatsAfter(CurrentMatch(r).MatchId)
                  /\ TeamRowsAfter(CurrentMatch(r).MatchId) =
                        {TeamMmrsOf(CurrentMatch(r).MatchId)[i] : i \in 1..2}
            /\ (pc'[r] = "summary" /\ pc[r] # "summary") =>
                  /\ pc[r] = "assets"
                  /\ matches' = matches
                  /\ \A k \in AssetKeys :
                        CacheRows(k) # <<>> => asset_fetches'[k] = asset_fetches[k]
            /\ (Stepped(r) /\ sent' # sent) =>
                  pc[r] = "summary" /\ Stored(CurrentMatch(r).MatchId)]_vars
    /\ [](\A id \in MatchIds : Summary(id) \in sent => Stored(id))
\* A run has stored a match, fetched its map from the remote side and is
\* about to send the summary.
PerMatchStepOrderWitness ==
    \E r \in Runners :
        /\ pc[r] = "summary"
        /\ Stored(CurrentMatch(r).MatchId)
        /\ map_data[r] # None
        /\ "PublicName" \in DOMAIN map_data[r][1]
        /\ Summary(CurrentMatch(r).MatchId) \notin sent

\* C32. Transient list failure: when the list call fails and the failure is
\* not a 401, the run writes nothing to the store, sends nothing, and
\* returns; the task stays alive, and its next run starts from the latest
\* match the store holds then.
TransientListFailure ==
    /\ [][\A r \in Runners :
            (pc[r] = "list" /\ Stepped(r) /\ api_status = "unavailable") =>
               /\ storeVars' = storeVars
               /\ sinkVars' = sinkVars
               /\ Returned(r)
               /\ live_tasks' = live_tasks]_vars
    /\ [][(pc["poll"] = "sleep" /\ pc'["poll"] = "list") =>
            /\ matches' = matches
            /\ matches = <<>> => db_latest'["poll"] = None
            /\ matches # <<>> =>
                  /\ db_latest'["poll"] # None
                  /\ \E i \in DOMAIN matches :
                        /\ matches[i].match_id = db_latest'["poll"][1].MatchId
                        /\ \A j \in DOMAIN matches :
                              matches[j].start_time <= matches[i].start_time]_vars
\* The service has been failing since before the last run started; that
\* run of the task has returned with nothing stored, and the task sleeps.
TransientListFailureWitness ==
    /\ armed /\ api_status = "unavailable"
    /\ page_top > 0 /\ matches = <<>> /\ sent = {}
    /\ pc["poll"] = "sleep" /\ scraper_task = "pending"
    /\ pc["manual"] = "idle"

\* C33. Latest match: on a store that is not empty Get_Latest_Match gives a
\* stored match whose start time no stored match exceeds, and a run reads
\* that match at its start; when the stored matches are matches of the
\* page, its ID is an ID of the page.
LatestIsNewest ==
    /\ [](matches # <<>> =>
            LET latest == Get_Latest_Match(matches)
            IN  /\ latest # None
                /\ \E i \in DOMAIN matches :
                      /\ matches[i].match_id = latest[1].MatchId
                      /\ matches[i].start_time = latest[1].StartTime
                /\ \A i \in DOMAIN matches : matches[i].start_time <= latest[1].StartTime
                /\ (\A i \in DOMAIN matches : matches[i].match_id \in PageIds)
                      => latest[1].MatchId \in PageIds)
    /\ [][\A r \in Runners :
            (StartRunStep(r) /\ matches # <<>>) =>
               /\ db_latest'[r] # None
               /\ \A i \in DOMAIN matches :
                     matches[i].start_time <= db_latest'[r][1].StartTime]_vars
\* The older match has the lower rowid, and a run has read the newer one
\* as the latest.
LatestIsNewestWitness ==
    \E r \in Runners :
        /\ pc[r] = "list"
        /\ Len(matches) = 2
        /\ matches[1].start_time < matches[2].start_time
        /\ db_latest[r] # None
        /\ db_latest[r][1].MatchId = matches[2].match_id

\* C35. No lost match: while the polling loop keeps running and no remote
\* call fails, a match that a polled page showed as newer than the latest
\* stored match is eventually stored once its stats are ready, also when a
\* newer match of the same page was stored in the run that first saw it.
NoLostMatch ==
    \A id \in MatchIds : (id \in seen_new /\ id \in stats_ready) ~> Stored(id)

\* C36. At most one summary per match: no summary is delivered to the user
\* a second time.
AtMostOneSummary == resent = {}

\* C37. Match implies stats: every row of the matches table has a row of the
\* stats table with its match ID, so the join of get_recent_match_data
\* keeps every stored match.
MatchImpliesStats ==
    /\ \A i \in DOMAIN matches :
          \E j \in DOMAIN stats : stats[j].match_id = matches[i].match_id
    /\ Len(JoinStats(Db)) = Len(matches)
\* Both matches are stored, and the join has both.
MatchImpliesStatsWitness ==
    /\ Len(matches) = MaxMatches
    /\ MatchIdsOf(JoinStats(Db)) = MatchIds
    /\ Len(get_recent_match_data(Db, ReportCount, FALSE)) = MaxMatches

\* The start time Get_Latest_Match gives for a table, -1 for None.
LatestStart(table) ==
    IF Get_Latest_Match(table) = None THEN -1 ELSE Get_Latest_Match(table)[1].StartTime

\* C38. Monotonic store: no step removes a match ID from the matches table,
\* and the start time of the match Get_Latest_Match returns never decreases.
MonotonicStore ==
    [][/\ MatchIdsOf(matches) \subseteq MatchIdsOf(matches')
       /\ LatestStart(matches) <= LatestStart(matches')]_vars
\* The older match was saved after the newer one, and the newer one is
\* still the latest.
MonotonicStoreWitness ==
    /\ Len(matches) = 2
    /\ matches[2].start_time < matches[1].start_time
    /\ LatestStart(matches) = matches[1].start_time

\* C39. IDLE has no polling: while the playing flag is false there is no live
\* task, self.scraper_task refers to no pending task, and a run that starts
\* is the run of a refresh command.
IdleHasNoPolling ==
    /\ [](~was_playing =>
            live_tasks = 0 /\ scraper_task # "pending" /\ pc["poll"] = "none")
    /\ [][\A r \in Runners :
            (~was_playing /\ ~was_playing' /\ StartRunStep(r)) => r = "manual"]_vars
\* The stopped edge has been handled (its report is still to be sent), and a
\* refresh command runs with no task alive.
IdleHasNoPollingWitness ==
    /\ ~was_playing /\ report_rows # <<>>
    /\ InRun("manual")
    /\ live_tasks = 0 /\ scraper_task = "None"

\* C40. Cache transparency: the summary of a match shows the name of its
\* map and of its mode, the same name whether the asset data came from the
\* cache row or from the remote fetch.
CacheTransparent ==
    \A r \in Runners :
        pc[r] = "summary" =>
           LET match == CurrentMatch(r)
               text == format_match_summary(match, mode_data[r], map_data[r])
           IN  /\ map_data[r] # None =>
                     text.Map = <<"name", RemoteAsset("maps", match.MapVariant).PublicName>>
               /\ mode_data[r] # None =>
                     text.Mode = <<"name", RemoteAsset("Modes", match.UgcGameVariant).PublicName>>
\* C34. Presence events of other identities are ignored: an event whose
\* subject is not the configured user changes neither the flag nor the task
\* reference, creates and cancels no task, starts no run, reads no report
\* and sends nothing; only the configured user's events do.
OtherIdentityIgnored ==
    [][(Len(presence_log') = Len(presence_log) + 1
          /\ presence_log'[Len(presence_log')][1] # USER_ID)
        => UNCHANGED <<cogVars, bootVars, runVars, sinkVars, storeVars, remoteVars,
                       histVars>>]_vars
\* Somebody else started playing while the configured user was not, and no
\* task exists; somebody else stopped while the user's task is polling.
OtherIdentityIgnoredWitness ==
    /\ Len(presence_log) = MaxEvents
    /\ presence_log[1] = <<"other", TRUE>>
    /\ presence_log[2] = <<USER_ID, TRUE>>
    /\ presence_log[3] = <<"other", FALSE>>
    /\ was_playing /\ live_tasks = 1 /\ scraper_task = "pending"
    /\ matches # <<>>
    /\ pc["poll"] = "sleep"

====
